---- MODULE Spec2Model ----
(***************************************************************************)
(* Research-Quest server (src/server/index.js): the stage-gated graph      *)
(* state machine of class ResearchQuestGraph and the tool-call dispatcher  *)
(* that owns the process-wide instance currentGraph.                       *)
(*                                                                         *)
(* Conventions of the model                                                *)
(*  - numbers in [0,1] are kept in hundredths (0.8 is 80, 1.0 is 100), so  *)
(*    m * (1 - m) is m * (100 - m) in units of 1/10000;                    *)
(*  - a string is a sequence of tokens, " " being a whitespace token;      *)
(*    trim() strips whitespace tokens at both ends, includes(k) finds the  *)
(*    token k, toLowerCase() maps each token through Lower;                *)
(*  - a caller-supplied value that may have the wrong JavaScript type is a *)
(*    record tagged with the kind of value it is (k) and its payload;      *)
(*  - an optional value is a sequence of length 0 (null) or 1;             *)
(*  - node ids are the tuples of their dotted parts: n0 is <<0>>, "2.3"    *)
(*    is <<2, 3>>, "3.6.1" is <<3, 6, 1>>; edge id e_<s>_<t> is <<s, t>>.  *)
(***************************************************************************)
EXTENDS Integers, Sequences, FiniteSets, TLC

VARIABLES
    graphExists,    \* currentGraph !== null (the instance the calls act on)
    vertices,       \* this.vertices: node id -> node
    edges,          \* this.edges: edge id -> edge
    layers,         \* this.layers: layer id -> [nodes, edges]
    nodeTypes,      \* this.nodeTypes
    currentStage,   \* this.currentStage, the stage cursor
    metadataStage,  \* this.metadata.stage
    call,           \* the last call: which operation, and what its arguments were
    result          \* what the last call handed to its caller

vars == <<graphExists, vertices, edges, layers, nodeTypes, currentStage,
          metadataStage, call, result>>


(***************************************************************************)
(* Bounds of the model                                                     *)
(***************************************************************************)
MaxDims == 1        \* longest caller-supplied dimension list
MaxHyps == 3        \* every collection of valid and empty strings up to this length

(***************************************************************************)
(* Program constants                                                       *)
(***************************************************************************)
MinDescriptionLength == 10
MaxDescriptionLength == 1000
MinHypotheses == 3
MaxHypotheses == 5
InitializeStage == 0    \* the stage initialize expects
DecomposeStage == 1     \* the stage decomposeTask expects
HypothesisStage == 2    \* the stage generateHypotheses expects
InitializedStage == 1   \* this.currentStage = 1
DecomposedStageStaying == DecomposeStage    \* a decomposeTask that left the cursor alone
DecomposedStage == 2    \* this.currentStage = 2
\* a generateHypotheses that moved the cursor past the stage it completes
HypothesizedStageSkipping == HypothesisStage + 2
HypothesizedStage == 3  \* this.currentStage = 3

None == <<>>
Some(x) == <<x>>

n0 == <<0>>
DimId(i) == <<2, i>>
HypId(d, k) == <<3, d, k>>
EdgeIdBySource(s, t) == <<s>>    \* an edge id that leaves the target out
EdgeId(s, t) == <<s, t>>

stageNames ==
    <<"initialization", "decomposition", "hypothesis_planning",
      "evidence_integration", "pruning_merging", "subgraph_extraction",
      "composition", "reflection">>

\* the number of the last stage that has a name
LastStage == Len(stageNames)

defaultLayers ==
    {"base", "methodological", "empirical", "theoretical", "interdisciplinary"}

defaultDimensions ==
    <<<<"Scope">>, <<"Objectives">>, <<"Constraints">>, <<"Data", " ", "Needs">>,
      <<"Use", " ", "Cases">>, <<"Potential", " ", "Biases">>,
      <<"Knowledge", " ", "Gaps">>>>

(***************************************************************************)
(* Strings                                                                 *)
(***************************************************************************)
RECURSIVE TrimLeft(_)
TrimLeft(s) ==
    IF s # <<>> /\ Head(s) = " " THEN TrimLeft(Tail(s)) ELSE s

RECURSIVE TrimRight(_)
TrimRight(s) ==
    IF s # <<>> /\ s[Len(s)] = " " THEN TrimRight(SubSeq(s, 1, Len(s) - 1)) ELSE s

Trim(s) == TrimRight(TrimLeft(s))

Lower(tok) ==
    CASE tok = "JSON" -> "json"
      [] tok = "Yaml" -> "yaml"
      [] tok = "XML" -> "xml"
      [] tok = "Always" -> "always"
      [] tok = "Clearly" -> "clearly"
      [] OTHER -> tok

ToLowerCase(s) == [i \in 1..Len(s) |-> Lower(s[i])]

Includes(s, tok) == \E i \in 1..Len(s) : s[i] = tok

\* a caller-supplied value where a string is expected
Str(s) == [k |-> "string", s |-> s]
NoStr(kind) == [k |-> kind, s |-> <<>>]

\* typeof x === 'string' && x.trim().length > 0
IsNonEmptyString(x) == x.k = "string" /\ Trim(x.s) # <<>>

\* a caller-supplied value where a number is expected
Num(n) == [k |-> "number", n |-> n]
NoNum(kind) == [k |-> kind, n |-> 0]

NaN == [nan |-> TRUE, v |-> 0]

\* Number(value): null coerces to 0, a non-numeric string and undefined to NaN
ToNumber(x) ==
    CASE x.k = "number" -> [nan |-> FALSE, v |-> x.n]
      [] x.k = "null" -> [nan |-> FALSE, v |-> 0]
      [] OTHER -> NaN

\* isNaN(num) || num < 0 || num > 1
OutOfUnitRange(num) == num.nan \/ num.v < 0 \/ num.v > 100

(***************************************************************************)
(* Validation layer.  A validator returns [ok, value]; ok = FALSE is the   *)
(* McpError(InvalidParams) the code throws.                                *)
(***************************************************************************)
Vec(a, b, c, d) == [k |-> "array", items |-> <<Num(a), Num(b), Num(c), Num(d)>>]

_validateConfidenceArray(confidence) ==
    IF confidence.k # "array" THEN [ok |-> FALSE, value |-> <<>>]
    ELSE IF Len(confidence.items) # 4 THEN [ok |-> FALSE, value |-> <<>>]
    ELSE IF \E i \in 1..4 : OutOfUnitRange(ToNumber(confidence.items[i]))
         THEN [ok |-> FALSE, value |-> <<>>]
    ELSE [ok |-> TRUE,
          value |-> [i \in 1..4 |-> ToNumber(confidence.items[i]).v]]

\* a task description is [k, padL, len, padR]: len characters between padL
\* leading and padR trailing whitespace characters
Desc(padL, len, padR) == [k |-> "string", padL |-> padL, len |-> len, padR |-> padR]
NoDesc(kind) == [k |-> kind, padL |-> 0, len |-> 0, padR |-> 0]

\* a validation that measures the description before trimming it
_validateTaskDescriptionUntrimmed(taskDescription) ==
    IF taskDescription.k \in {"null", "undefined"} THEN [ok |-> FALSE, value |-> NoDesc("null")]
    ELSE IF taskDescription.k # "string" THEN [ok |-> FALSE, value |-> NoDesc("null")]
    ELSE LET length == taskDescription.padL + taskDescription.len + taskDescription.padR
         IN  IF length = 0 THEN [ok |-> FALSE, value |-> NoDesc("null")]
             ELSE IF length < MinDescriptionLength THEN [ok |-> FALSE, value |-> NoDesc("null")]
             ELSE IF length > MaxDescriptionLength THEN [ok |-> FALSE, value |-> NoDesc("null")]
             ELSE [ok |-> TRUE, value |-> Desc(0, taskDescription.len, 0)]

_validateTaskDescription(taskDescription) ==
    IF taskDescription.k \in {"null", "undefined"} THEN [ok |-> FALSE, value |-> NoDesc("null")]
    ELSE IF taskDescription.k # "string" THEN [ok |-> FALSE, value |-> NoDesc("null")]
    ELSE LET trimmed == Desc(0, taskDescription.len, 0)
         IN  IF trimmed.len = 0 THEN [ok |-> FALSE, value |-> NoDesc("null")]
             ELSE IF trimmed.len < MinDescriptionLength THEN [ok |-> FALSE, value |-> NoDesc("null")]
             ELSE IF trimmed.len > MaxDescriptionLength THEN [ok |-> FALSE, value |-> NoDesc("null")]
             ELSE [ok |-> TRUE, value |-> trimmed]

\* /^2\.\d+$/ on the dotted parts of the id
FormatOk(nodeId) == Len(nodeId.s) = 2 /\ nodeId.s[1] = 2

\* a node id argument is [k, s] with s the tuple of its dotted parts
Id(parts) == [k |-> "string", s |-> parts]

\* a validation that answers a missing node with the first dimension node
_validateDimensionNodeIdDefaulting(nodeId, existingNodes) ==
    IF nodeId.k # "string" \/ nodeId.s = <<>> THEN [ok |-> FALSE, value |-> <<>>]
    ELSE IF ~FormatOk(nodeId) THEN [ok |-> FALSE, value |-> <<>>]
    ELSE IF nodeId.s \in DOMAIN existingNodes THEN [ok |-> TRUE, value |-> nodeId.s]
    ELSE IF DimId(1) \in DOMAIN existingNodes THEN [ok |-> TRUE, value |-> DimId(1)]
    ELSE [ok |-> FALSE, value |-> <<>>]

_validateDimensionNodeId(nodeId, existingNodes) ==
    IF nodeId.k # "string" \/ nodeId.s = <<>> THEN [ok |-> FALSE, value |-> <<>>]
    ELSE IF ~FormatOk(nodeId) THEN [ok |-> FALSE, value |-> <<>>]
    ELSE IF nodeId.s \notin DOMAIN existingNodes THEN [ok |-> FALSE, value |-> <<>>]
    ELSE [ok |-> TRUE, value |-> nodeId.s]

\* a validation of the collection that forgot the upper limit
_validateHypothesesArrayNoMaximum(hypotheses) ==
    IF hypotheses.k # "array" THEN [ok |-> FALSE, value |-> <<>>]
    ELSE IF Len(hypotheses.items) < MinHypotheses THEN [ok |-> FALSE, value |-> <<>>]
    ELSE [ok |-> TRUE, value |-> hypotheses.items]

\* a hypotheses argument is [k, items]
_validateHypothesesArray(hypotheses) ==
    IF hypotheses.k # "array" THEN [ok |-> FALSE, value |-> <<>>]
    ELSE IF Len(hypotheses.items) < MinHypotheses THEN [ok |-> FALSE, value |-> <<>>]
    ELSE IF Len(hypotheses.items) > MaxHypotheses THEN [ok |-> FALSE, value |-> <<>>]
    ELSE [ok |-> TRUE, value |-> hypotheses.items]

validFormats == {<<"json">>, <<"yaml">>}

_validateExportFormat(format) ==
    IF format.k # "string" \/ format.s = <<>> THEN [ok |-> FALSE, value |-> <<>>]
    ELSE IF ToLowerCase(format.s) \notin validFormats THEN [ok |-> FALSE, value |-> <<>>]
    ELSE [ok |-> TRUE, value |-> ToLowerCase(format.s)]

\* array.filter(typeof x === 'string' && x.trim().length > 0).map(trim)
RECURSIVE FilterTrim(_)
FilterTrim(items) ==
    IF items = <<>> THEN <<>>
    ELSE IF IsNonEmptyString(Head(items))
         THEN <<Trim(Head(items).s)>> \o FilterTrim(Tail(items))
         ELSE FilterTrim(Tail(items))

\* an array-of-strings argument is [k, items]
Arr(items) == [k |-> "array", items |-> items]
NoArr(kind) == [k |-> kind, items |-> <<>>]

\* a config argument is [k, disciplinary_tags, attribution, enable_multi_layer,
\* max_hypotheses]; the validated config is a record holding only the keys set
Config(tags, attr, eml, maxh) ==
    [k |-> "object", disciplinary_tags |-> tags, attribution |-> attr,
     enable_multi_layer |-> eml, max_hypotheses |-> maxh]
EmptyConfig == Config(NoArr("undefined"), NoArr("undefined"), "undefined", NoNum("undefined"))
NoConfig(kind) == [EmptyConfig EXCEPT !.k = kind]

_validateConfig(config) ==
    IF config.k \in {"null", "undefined"} THEN [ok |-> TRUE, value |-> <<>>]
    ELSE IF config.k # "object" THEN [ok |-> FALSE, value |-> <<>>]
    ELSE IF config.disciplinary_tags.k \notin {"undefined", "array"}
         THEN [ok |-> FALSE, value |-> <<>>]
    ELSE IF config.attribution.k \notin {"undefined", "array"}
         THEN [ok |-> FALSE, value |-> <<>>]
    ELSE [ok |-> TRUE,
          value |->
            (IF config.disciplinary_tags.k = "array"
             THEN [disciplinary_tags |-> FilterTrim(config.disciplinary_tags.items)]
             ELSE <<>>)
            @@ (IF config.attribution.k = "array"
                THEN [attribution |-> FilterTrim(config.attribution.items)]
                ELSE <<>>)
            @@ (IF config.enable_multi_layer \in {"true", "false"}
                THEN [enable_multi_layer |-> config.enable_multi_layer = "true"]
                ELSE <<>>)]

_validateHypothesisConfig(config) ==
    IF config.k = "object" /\ config.max_hypotheses.k # "undefined"
    THEN LET maxHyp == ToNumber(config.max_hypotheses)
         IN  IF ~maxHyp.nan /\ maxHyp.v > 0 /\ maxHyp.v <= MaxHypotheses
             THEN [max_hypotheses |-> maxHyp.v]
             ELSE [max_hypotheses |-> MaxHypotheses]
    ELSE <<>>

(***************************************************************************)
(* Metadata factory                                                        *)
(***************************************************************************)
Now == "timestamp"
uuidv4 == <<"uuid">>

\* a factory that always answers with the variances of its default
_createProbabilityDistributionFlat(means) ==
    LET m == IF means.k # "array" THEN Vec(50, 50, 50, 50).items ELSE means.items
        validMeans ==
            [i \in 1..Len(m) |->
                IF OutOfUnitRange(ToNumber(m[i])) THEN 50 ELSE ToNumber(m[i]).v]
    IN  [type |-> "probability_distribution",
         means |-> validMeans,
         variances |-> [i \in 1..Len(m) |-> 2500],
         distribution_type |-> "beta",
         samples |-> 1000,
         confidence_interval |-> 95]

_createProbabilityDistribution(means) ==
    LET m == IF means.k # "array" THEN Vec(50, 50, 50, 50).items ELSE means.items
        validMeans ==
            [i \in 1..Len(m) |->
                IF OutOfUnitRange(ToNumber(m[i])) THEN 50 ELSE ToNumber(m[i]).v]
    IN  [type |-> "probability_distribution",
         means |-> validMeans,
         variances |-> [i \in 1..Len(m) |-> validMeans[i] * (100 - validMeans[i])],
         distribution_type |-> "beta",
         samples |-> 1000,
         confidence_interval |-> 95]

\* a trusted numeric vector (the value a validator returned, or a literal)
Trusted(v) == [k |-> "array", items |-> [i \in 1..Len(v) |-> Num(v[i])]]

_createTopologyMetrics ==
    [centrality |-> 0, clustering_coeff |-> 0, degree |-> 0,
     betweenness_centrality |-> 0, eigenvector_centrality |-> 0, pagerank |-> 0,
     community_id |-> None]

_createInfoMetrics ==
    [entropy |-> 0, kl_divergence |-> 0, mutual_information |-> 0, mdl_score |-> 0,
     information_gain |-> 0, complexity |-> 0]

_validateImpactScore(score) ==
    LET num == ToNumber(score)
    IN  IF OutOfUnitRange(num) THEN 50 ELSE num.v

excludeKeys ==
    {"node_id", "created", "updated", "timestamp", "provenance", "confidence",
     "epistemic_status", "disciplinary_tags", "falsification_criteria", "bias_flags",
     "revision_history", "layer_id", "topology_metrics", "statistical_power",
     "info_metrics", "impact_score", "attribution"}

_sanitizeAdditionalMetadata(baseMetadata) ==
    [key \in DOMAIN baseMetadata \ excludeKeys |-> baseMetadata[key]]

safeAccess(obj, prop, fallback) ==
    IF prop \in DOMAIN obj THEN obj[prop] ELSE fallback

_createNodeMetadata(baseMetadata) ==
    [node_id |-> safeAccess(baseMetadata, "node_id", uuidv4),
     created |-> Now,
     updated |-> Now,
     timestamp |-> Now,
     provenance |-> safeAccess(baseMetadata, "provenance", "system_generated"),
     confidence |-> safeAccess(baseMetadata, "confidence",
                               _createProbabilityDistribution(Vec(50, 50, 50, 50))),
     epistemic_status |-> safeAccess(baseMetadata, "epistemic_status", "pending"),
     disciplinary_tags |-> safeAccess(baseMetadata, "disciplinary_tags", <<>>),
     falsification_criteria |-> safeAccess(baseMetadata, "falsification_criteria", None),
     bias_flags |-> safeAccess(baseMetadata, "bias_flags", <<>>),
     revision_history |-> safeAccess(baseMetadata, "revision_history", <<>>),
     layer_id |-> safeAccess(baseMetadata, "layer_id", "base"),
     topology_metrics |-> safeAccess(baseMetadata, "topology_metrics", _createTopologyMetrics),
     statistical_power |-> safeAccess(baseMetadata, "statistical_power", None),
     info_metrics |-> safeAccess(baseMetadata, "info_metrics", _createInfoMetrics),
     impact_score |-> _validateImpactScore(safeAccess(baseMetadata, "impact_score", Num(50))),
     attribution |-> safeAccess(baseMetadata, "attribution", <<>>)]
    @@ _sanitizeAdditionalMetadata(baseMetadata)

\* an edge factory that passes the caller's fields on and fills in nothing
_createEdgeMetadataBare(baseMetadata) == baseMetadata

_createEdgeMetadata(baseMetadata) ==
    baseMetadata
    @@ [edge_id |-> uuidv4,
        created |-> Now,
        edge_type |-> "Other",
        confidence |-> _createProbabilityDistribution(Vec(70, 70, 70, 70)),
        causal_metadata |-> None,
        temporal_metadata |-> None,
        weight |-> 100,
        bidirectional |-> FALSE,
        layer_connection |-> None]

(***************************************************************************)
(* The graph instance.  A method is an operator from the instance (and its *)
(* arguments) to the instance it leaves behind and what the caller gets.   *)
(***************************************************************************)
EmptyLayer == [nodes |-> {}, edges |-> {}]

_initializeLayerStructure(ls) ==
    [l \in DOMAIN ls \cup defaultLayers |->
        IF l \in defaultLayers THEN EmptyLayer ELSE ls[l]]

\* new ResearchQuestGraph(config): config.enable_multi_layer !== false
ResearchQuestGraph(enable_multi_layer) ==
    [vertices |-> <<>>,
     edges |-> <<>>,
     layers |-> IF enable_multi_layer # "false"
                THEN _initializeLayerStructure(<<>>) ELSE <<>>,
     nodeTypes |-> {},
     currentStage |-> 0,
     metadataStage |-> "initialization"]

ClearLayers(ls) == [l \in DOMAIN ls |-> EmptyLayer]

\* a reset that moves the cursor back and clears nothing
_resetToInitialStateCursorOnly(g) ==
    [g EXCEPT !.currentStage = 0, !.metadataStage = "initialization"]

_resetToInitialState(g) ==
    [g EXCEPT !.vertices = <<>>,
              !.edges = <<>>,
              !.nodeTypes = {},
              !.currentStage = 0,
              !.metadataStage = "initialization",
              !.layers = IF DOMAIN g.layers # {}
                         THEN ClearLayers(g.layers)
                         ELSE _initializeLayerStructure(g.layers)]

\* a layer addition that always files the node under the base layer
AddToLayerBase(ls, l, nodeId) == [ls EXCEPT !["base"].nodes = @ \cup {nodeId}]

AddToLayer(ls, l, nodeId) == [ls EXCEPT ![l].nodes = @ \cup {nodeId}]

NoError == [kind |-> "none", current |-> 0, expected |-> 0]
StageError(current, expected) ==
    [kind |-> "wrong_stage", current |-> current, expected |-> expected]
OtherError(kind) == [kind |-> kind, current |-> 0, expected |-> 0]

NoDoc == [format |-> <<>>, vertices_count |-> 0, edges_count |-> 0,
          layers_count |-> 0, current_stage |-> 0]

\* the structured result of a call; threw = TRUE when the call raised instead
Returned(op, g, stage_before, args_ok) ==
    [op |-> op, threw |-> FALSE, success |-> TRUE, error |-> NoError,
     stage_before |-> stage_before, args_ok |-> args_ok,
     current_stage |-> g.currentStage, created |-> <<>>, errors |-> <<>>,
     warnings |-> <<>>, recovery_attempted |-> FALSE, doc |-> NoDoc,
     graph_data_built |-> FALSE]

Failed(op, g, stage_before, args_ok, error) ==
    [Returned(op, g, stage_before, args_ok) EXCEPT !.success = FALSE, !.error = error]

Threw(op, g, stage_before, args_ok, error) ==
    [Failed(op, g, stage_before, args_ok, error) EXCEPT !.threw = TRUE]

NoResult == Returned("none", ResearchQuestGraph("undefined"), 0, TRUE)

(***************************************************************************)
(* Stage 1: initialize                                                     *)
(***************************************************************************)
\* an initialize that did not look at the stage
InitializeAtAnyStage(stage) == TRUE

\* the guard `this.currentStage !== 0` of initialize
InitializeStageOk(stage) == stage = InitializeStage

\* a guard that lets generateHypotheses run again once it has succeeded
HypothesisStageOkAfter(stage) == stage >= HypothesisStage

\* the guard `this.currentStage !== 2` of generateHypotheses
HypothesisStageOk(stage) == stage = HypothesisStage

\* an initialize that creates only the layer it is about to use
EnsureBaseLayerOnly(ls) ==
    IF "base" \in DOMAIN ls THEN ls ELSE ("base" :> EmptyLayer) @@ ls

\* if (this.layers.has('base')) ... else this._initializeLayerStructure()
EnsureBaseLayer(ls) ==
    IF "base" \in DOMAIN ls THEN ls ELSE _initializeLayerStructure(ls)

\* what the catch block of initialize leaves behind
InitializeRecovery(g) == _resetToInitialState(g)

initialize(g, taskDescription, initialConfidence, config) ==
    LET description == _validateTaskDescription(taskDescription)
        \* default parameters: undefined becomes [0.8, 0.8, 0.8, 0.8] and {}
        confidenceArg == IF initialConfidence.k = "undefined"
                         THEN Vec(80, 80, 80, 80) ELSE initialConfidence
        configArg == IF config.k = "undefined" THEN EmptyConfig ELSE config
        confidence == _validateConfidenceArray(confidenceArg)
        safeConfig == _validateConfig(configArg)
        args_ok == description.ok /\ confidence.ok /\ safeConfig.ok
        \* reinitialisation of a non-empty store at stage 0
        cleared == IF DOMAIN g.vertices # {}
                   THEN [g EXCEPT !.vertices = <<>>, !.edges = <<>>,
                                  !.layers = ClearLayers(g.layers)]
                   ELSE g
        recovered == InitializeRecovery(g)
        rootNodeMetadata ==
            _createNodeMetadata(
                [node_id |-> n0,
                 provenance |-> "user_input",
                 epistemic_status |-> "accepted",
                 confidence |-> _createProbabilityDistribution(Trusted(confidence.value)),
                 layer_id |-> "base",
                 disciplinary_tags |->
                    IF "disciplinary_tags" \in DOMAIN safeConfig.value
                    THEN safeConfig.value.disciplinary_tags
                    ELSE <<<<"immunology">>, <<"dermatology">>>>,
                 impact_score |-> Num(80),
                 attribution |->
                    IF "attribution" \in DOMAIN safeConfig.value
                    THEN safeConfig.value.attribution ELSE <<>>])
        rootNode ==
            [node_id |-> n0,
             label |-> <<"Task", " ", "Understanding">>,
             type |-> "root",
             content |-> description.value,
             confidence |-> _createProbabilityDistribution(Trusted(confidence.value)),
             metadata |-> rootNodeMetadata]
        baseLayers == EnsureBaseLayer(cleared.layers)
        done ==
            [cleared EXCEPT !.vertices = (n0 :> rootNode) @@ cleared.vertices,
                            !.nodeTypes = @ \cup {"root"},
                            !.layers = AddToLayer(baseLayers, "base", n0),
                            !.metadataStage = "initialization",
                            !.currentStage = InitializedStage]
    IN  IF ~InitializeStageOk(g.currentStage)
        THEN [g |-> recovered,
              res |-> [Failed("initialize", recovered, g.currentStage, args_ok,
                              StageError(g.currentStage, InitializeStage))
                       EXCEPT !.recovery_attempted = TRUE]]
        ELSE IF ~args_ok
        THEN [g |-> recovered,
              res |-> [Failed("initialize", recovered, g.currentStage, args_ok,
                              OtherError("invalid_params"))
                       EXCEPT !.recovery_attempted = TRUE]]
        ELSE [g |-> done,
              res |-> [Returned("initialize", done, g.currentStage, args_ok)
                       EXCEPT !.created = <<n0>>,
                              !.warnings = IF DOMAIN done.layers = {}
                                           THEN <<"No layers initialized">> ELSE <<>>]]

(***************************************************************************)
(* Stage 2: decomposeTask                                                  *)
(***************************************************************************)
_inferDisciplinaryTags(dimension) ==
    CASE dimension = <<"Scope">> -> <<<<"methodology">>, <<"research_design">>>>
      [] dimension = <<"Objectives">> -> <<<<"goals">>, <<"outcomes">>>>
      [] dimension = <<"Constraints">> -> <<<<"limitations">>, <<"resources">>>>
      [] dimension = <<"Data", " ", "Needs">> -> <<<<"data_science">>, <<"methodology">>>>
      [] dimension = <<"Use", " ", "Cases">> -> <<<<"application">>, <<"translation">>>>
      [] dimension = <<"Potential", " ", "Biases">> -> <<<<"methodology">>, <<"bias_detection">>>>
      [] dimension = <<"Knowledge", " ", "Gaps">> -> <<<<"knowledge_discovery">>, <<"research_gaps">>>>
      [] OTHER -> <<<<"general">>>>

DimensionNode(dimension, index) ==
    [node_id |-> DimId(index),
     label |-> dimension,
     type |-> "dimension",
     content |-> <<"Analysis of">> \o dimension \o <<"aspects of the research task">>,
     confidence |-> _createProbabilityDistribution(Vec(80, 80, 80, 80)),
     metadata |->
        _createNodeMetadata(
            [node_id |-> DimId(index),
             provenance |-> "task_decomposition",
             epistemic_status |-> "pending",
             confidence |-> _createProbabilityDistribution(Vec(80, 80, 80, 80)),
             layer_id |-> "base",
             impact_score |-> Num(60),
             disciplinary_tags |-> _inferDisciplinaryTags(dimension)])]

Edge(source, target, edge_type, c) ==
    [edge_id |-> EdgeId(source, target),
     source |-> source,
     target |-> target,
     metadata |->
        _createEdgeMetadata(
            [edge_id |-> EdgeId(source, target),
             edge_type |-> edge_type,
             confidence |-> _createProbabilityDistribution(Vec(c, c, c, c))])]

\* a loop body that stored the dimension node and forgot its edge
AddDimensionWithoutEdge(g, dimension, index) ==
    [g EXCEPT !.vertices = (DimId(index) :> DimensionNode(dimension, index)) @@ g.vertices,
              !.nodeTypes = @ \cup {"dimension"},
              !.layers = AddToLayer(g.layers, "base", DimId(index))]

\* the body of taskDimensions.forEach for one dimension
AddDimension(g, dimension, index) ==
    [g EXCEPT !.vertices = (DimId(index) :> DimensionNode(dimension, index)) @@ g.vertices,
              !.nodeTypes = @ \cup {"dimension"},
              !.layers = AddToLayer(g.layers, "base", DimId(index)),
              !.edges = (EdgeId(n0, DimId(index))
                            :> Edge(n0, DimId(index), "Decomposition", 90)) @@ g.edges]

RECURSIVE AddDimensions(_, _, _)
AddDimensions(g, taskDimensions, index) ==
    IF index > Len(taskDimensions) THEN g
    ELSE AddDimensions(AddDimension(g, taskDimensions[index], index),
                       taskDimensions, index + 1)

\* a decomposition that always takes the default list
TaskDimensionsDefaultOnly(customDimensions) == defaultDimensions

\* a dimensions argument is [k, items]: customDimensions || defaultDimensions
\* takes the default for null, undefined and every other falsy value
TaskDimensions(customDimensions) ==
    IF customDimensions.k \in {"null", "undefined", "falsy"}
    THEN defaultDimensions ELSE customDimensions.items

decomposeTask(g, customDimensions) ==
    LET args_ok == customDimensions.k \in {"null", "undefined", "falsy", "array"}
        taskDimensions == TaskDimensions(customDimensions)
        added == AddDimensions(g, taskDimensions, 1)
        done == [added EXCEPT !.currentStage = DecomposedStage,
                              !.metadataStage = "decomposition"]
    IN  IF g.currentStage # DecomposeStage
        THEN [g |-> g,
              res |-> Threw("decompose", g, g.currentStage, args_ok,
                            StageError(g.currentStage, DecomposeStage))]
        ELSE IF ~args_ok
        \* taskDimensions.forEach is not a function
        THEN [g |-> g,
              res |-> Threw("decompose", g, g.currentStage, args_ok,
                            OtherError("type_error"))]
        ELSE IF taskDimensions # <<>> /\ "base" \notin DOMAIN g.layers
        \* this.layers.get('base') is undefined: thrown after the first vertices.set
        THEN LET partial ==
                    [g EXCEPT !.vertices = (DimId(1) :> DimensionNode(taskDimensions[1], 1))
                                              @@ g.vertices,
                              !.nodeTypes = @ \cup {"dimension"}]
             IN  [g |-> partial,
                  res |-> Threw("decompose", partial, g.currentStage, args_ok,
                                OtherError("type_error"))]
        ELSE [g |-> done,
              res |-> [Returned("decompose", done, g.currentStage, args_ok)
                       EXCEPT !.created = [i \in 1..Len(taskDimensions) |-> DimId(i)]]]

(***************************************************************************)
(* Stage 3: generateHypotheses                                             *)
(***************************************************************************)
\* a plan argument is [k, type, description]
Plan(type) == [k |-> "object", type |-> type, description |-> <<>>]
NoPlan(kind) == [k |-> kind, type |-> NoStr("undefined"), description |-> <<>>]

\* a hypothesis item is [k, s, content, confidence, falsification_criteria, plan,
\* impact_score, disciplinary_tags, attribution]: a string s when k = "string",
\* an object of these properties when k = "object"
NoConfidence == [k |-> "undefined", items |-> <<>>]

ObjectItem(content, confidence, fc, plan, impact) ==
    [k |-> "object", s |-> <<>>, content |-> content, confidence |-> confidence,
     falsification_criteria |-> fc, plan |-> plan, impact_score |-> impact,
     disciplinary_tags |-> NoArr("undefined"), attribution |-> NoArr("undefined")]

StringItem(s) ==
    [ObjectItem(NoStr("undefined"), NoConfidence, NoStr("undefined"),
                NoPlan("undefined"), NoNum("undefined"))
     EXCEPT !.k = "string", !.s = s]

OtherItem(kind) == [StringItem(<<>>) EXCEPT !.k = kind]

\* the validated hypothesis holds only the keys the validation set
_validateHypothesis(hypothesis) ==
    IF hypothesis.k = "string"
    THEN IF Trim(hypothesis.s) = <<>>
         THEN [ok |-> FALSE, value |-> <<>>]
         ELSE [ok |-> TRUE,
               value |-> [content |-> Trim(hypothesis.s),
                          _needs_plan |-> TRUE,
                          _needs_falsification_criteria |-> TRUE]]
    ELSE IF hypothesis.k = "object"
    THEN LET confidence == _validateConfidenceArray(hypothesis.confidence)
             score == ToNumber(hypothesis.impact_score)
         IN  IF ~IsNonEmptyString(hypothesis.content)
             THEN [ok |-> FALSE, value |-> <<>>]
             ELSE IF hypothesis.falsification_criteria.k # "undefined"
                     /\ ~IsNonEmptyString(hypothesis.falsification_criteria)
             THEN [ok |-> FALSE, value |-> <<>>]
             ELSE IF hypothesis.plan.k \notin {"undefined", "object"}
             THEN [ok |-> FALSE, value |-> <<>>]
             ELSE IF hypothesis.plan.k = "object"
                     /\ (hypothesis.plan.type.k # "string" \/ hypothesis.plan.type.s = <<>>)
             THEN [ok |-> FALSE, value |-> <<>>]
             ELSE IF hypothesis.impact_score.k # "undefined" /\ OutOfUnitRange(score)
             THEN [ok |-> FALSE, value |-> <<>>]
             ELSE IF hypothesis.disciplinary_tags.k \notin {"undefined", "array"}
             THEN [ok |-> FALSE, value |-> <<>>]
             ELSE IF hypothesis.attribution.k \notin {"undefined", "array"}
             THEN [ok |-> FALSE, value |-> <<>>]
             ELSE [ok |-> TRUE,
                   value |->
                     [content |-> Trim(hypothesis.content.s)]
                     @@ (IF hypothesis.confidence.k # "undefined" /\ confidence.ok
                         THEN [confidence |-> confidence.value] ELSE <<>>)
                     @@ (IF hypothesis.falsification_criteria.k # "undefined"
                         THEN [falsification_criteria |->
                                  Trim(hypothesis.falsification_criteria.s)]
                         ELSE [_needs_falsification_criteria |-> TRUE])
                     @@ (IF hypothesis.plan.k # "undefined"
                         THEN [plan |-> hypothesis.plan]
                         ELSE [_needs_plan |-> TRUE])
                     @@ (IF hypothesis.impact_score.k # "undefined"
                         THEN [impact_score |-> score.v] ELSE <<>>)
                     @@ (IF hypothesis.disciplinary_tags.k = "array"
                         THEN [disciplinary_tags |->
                                  FilterTrim(hypothesis.disciplinary_tags.items)]
                         ELSE <<>>)
                     @@ (IF hypothesis.attribution.k = "array"
                         THEN [attribution |-> FilterTrim(hypothesis.attribution.items)]
                         ELSE <<>>)]
    ELSE [ok |-> FALSE, value |-> <<>>]

_assessInitialBiasRisk(hypothesis) ==
    LET content == ToLowerCase(hypothesis.content)
    IN  (IF Includes(content, "always") \/ Includes(content, "never")
         THEN <<"absolute_thinking">> ELSE <<>>)
        \o (IF Includes(content, "obvious") \/ Includes(content, "clearly")
            THEN <<"confirmation_bias_risk">> ELSE <<>>)
        \o (IF Includes(content, "proven") \/ Includes(content, "definitively")
            THEN <<"overconfidence_bias">> ELSE <<>>)

_generateDefaultPlan(content) ==
    [k |-> "object",
     type |-> Str(<<"literature_search">>),
     description |-> <<"Systematic literature review for:">> \o content]

\* x || fallback on a key of the validated hypothesis
OrElse(v, key, falsy, fallback) ==
    IF key \in DOMAIN v /\ v[key] # falsy THEN v[key] ELSE fallback

\* a numbering that forgot forEach counts from 0
HypothesisNodeIdFromZero(dimensionNumber, index) == HypId(dimensionNumber, index - 1)

\* `3.${dimensionNumber}.${index + 1}`; index here is already 1-based
HypothesisNodeId(dimensionNumber, index) == HypId(dimensionNumber, index)

HypothesisNode(validatedHypothesis, dimensionNumber, index) ==
    LET metadata ==
            _createNodeMetadata(
                [node_id |-> HypothesisNodeId(dimensionNumber, index),
                 provenance |-> "hypothesis_generation",
                 epistemic_status |-> "hypothetical",
                 confidence |->
                    IF "confidence" \in DOMAIN validatedHypothesis
                    THEN _createProbabilityDistribution(Trusted(validatedHypothesis.confidence))
                    ELSE _createProbabilityDistribution(Vec(50, 50, 50, 50)),
                 disciplinary_tags |-> OrElse(validatedHypothesis, "disciplinary_tags", None, <<>>),
                 falsification_criteria |->
                    IF "falsification_criteria" \in DOMAIN validatedHypothesis
                    THEN Some(validatedHypothesis.falsification_criteria) ELSE None,
                 bias_flags |-> _assessInitialBiasRisk(validatedHypothesis),
                 impact_score |-> Num(OrElse(validatedHypothesis, "impact_score", 0, 60)),
                 attribution |-> OrElse(validatedHypothesis, "attribution", None, <<>>),
                 layer_id |-> "theoretical",
                 plan |->
                    IF "plan" \in DOMAIN validatedHypothesis
                    THEN validatedHypothesis.plan
                    ELSE _generateDefaultPlan(validatedHypothesis.content)])
    IN  [node_id |-> HypothesisNodeId(dimensionNumber, index),
         label |-> <<"Hypothesis", dimensionNumber, index>>,
         type |-> "hypothesis",
         content |-> validatedHypothesis.content,
         confidence |-> metadata.confidence,
         metadata |-> metadata]

\* whether the item at this position yields a node
ItemAccepted(hypothesis) == _validateHypothesis(hypothesis).ok

\* a catch block that swallowed the error of an item
RejectHypothesisSilently(acc, index) == acc

\* the catch block of one item: the error is recorded and the loop goes on
RejectHypothesis(acc, index) == [acc EXCEPT !.errors = Append(@, index)]

\* the body of hypotheses.slice(0, maxHypotheses).forEach for one item; acc is
\* [g, hypothesisNodes, errors]
ProcessHypothesis(acc, dimensionNodeId, hypothesis, index) ==
    LET dimensionNumber == dimensionNodeId[2]
        nodeId == HypothesisNodeId(dimensionNumber, index)
        validated == _validateHypothesis(hypothesis)
        node == HypothesisNode(validated.value, dimensionNumber, index)
        g == acc.g
        withNode == [g EXCEPT !.vertices = (nodeId :> node) @@ g.vertices,
                              !.nodeTypes = @ \cup {"hypothesis"}]
        layer == IF "theoretical" \in DOMAIN g.layers THEN "theoretical" ELSE "base"
    IN  IF ~ItemAccepted(hypothesis)
        THEN RejectHypothesis(acc, index)
        ELSE IF layer \notin DOMAIN g.layers
        \* this.layers.get('base') is undefined: caught after vertices.set
        THEN RejectHypothesis([acc EXCEPT !.g = withNode], index)
        ELSE [acc EXCEPT
                !.g = [withNode EXCEPT
                          !.layers = AddToLayer(g.layers, layer, nodeId),
                          !.edges = (EdgeId(dimensionNodeId, nodeId)
                                        :> Edge(dimensionNodeId, nodeId, "Hypothesis", 80))
                                    @@ g.edges],
                !.hypothesisNodes = Append(@, nodeId)]

RECURSIVE ProcessHypotheses(_, _, _, _)
ProcessHypotheses(acc, dimensionNodeId, items, index) ==
    IF index > Len(items) THEN acc
    ELSE ProcessHypotheses(ProcessHypothesis(acc, dimensionNodeId, items[index], index),
                           dimensionNodeId, items, index + 1)

\* hypotheses.slice(0, maxHypotheses)
Slice(items, n) == SubSeq(items, 1, IF n < Len(items) THEN n ELSE Len(items))

\* a limit that ignores the configuration
MaxToProcessIgnoringConfig(safeConfig) == MaxHypotheses

\* Math.min(safeConfig.max_hypotheses || 5, 5)
MaxToProcess(safeConfig) ==
    LET m == OrElse(safeConfig, "max_hypotheses", 0, MaxHypotheses)
    IN  IF m < MaxHypotheses THEN m ELSE MaxHypotheses

\* a generateHypotheses without the zero-created check
NothingCreatedUnchecked(hypothesisNodes) == FALSE

\* the check `hypothesisNodes.length === 0` that fails the whole call
NothingCreated(hypothesisNodes) == Len(hypothesisNodes) = 0

\* a generateHypotheses that validates the dimension id before the stage
generateHypothesesArgumentsFirst(g, dimensionNodeId, hypotheses, config) ==
    LET configArg == IF config.k = "undefined" THEN EmptyConfig ELSE config
        validatedNodeId == _validateDimensionNodeId(dimensionNodeId, g.vertices)
        validatedHypotheses == _validateHypothesesArray(hypotheses)
        args_ok == validatedNodeId.ok /\ validatedHypotheses.ok
        safeConfig == _validateHypothesisConfig(configArg)
        maxHypotheses == MaxToProcess(safeConfig)
        acc == ProcessHypotheses([g |-> g, hypothesisNodes |-> <<>>, errors |-> <<>>],
                                 dimensionNodeId.s,
                                 Slice(hypotheses.items, maxHypotheses), 1)
        done == [acc.g EXCEPT !.currentStage = HypothesizedStage,
                              !.metadataStage = "hypothesis_planning"]
    IN  IF ~validatedNodeId.ok
        THEN [g |-> g,
              res |-> Failed("generateHypotheses", g, g.currentStage, args_ok,
                             OtherError("invalid_params"))]
        ELSE IF g.currentStage # HypothesisStage
        THEN [g |-> g,
              res |-> Failed("generateHypotheses", g, g.currentStage, args_ok,
                             StageError(g.currentStage, HypothesisStage))]
        ELSE IF g.vertices[validatedNodeId.value].type # "dimension"
        THEN [g |-> g,
              res |-> Failed("generateHypotheses", g, g.currentStage, args_ok,
                             OtherError("invalid_params"))]
        ELSE IF ~validatedHypotheses.ok
        THEN [g |-> g,
              res |-> Failed("generateHypotheses", g, g.currentStage, args_ok,
                             OtherError("invalid_params"))]
        ELSE IF NothingCreated(acc.hypothesisNodes)
        THEN [g |-> acc.g,
              res |-> [Failed("generateHypotheses", acc.g, g.currentStage, args_ok,
                              OtherError("no_hypotheses"))
                       EXCEPT !.errors = acc.errors]]
        ELSE [g |-> done,
              res |-> [Returned("generateHypotheses", done, g.currentStage, args_ok)
                       EXCEPT !.created = acc.hypothesisNodes,
                              !.errors = acc.errors,
                              !.warnings = IF acc.errors # <<>>
                                           THEN <<"hypotheses failed to create">>
                                           ELSE <<>>]]

generateHypotheses(g, dimensionNodeId, hypotheses, config) ==
    LET configArg == IF config.k = "undefined" THEN EmptyConfig ELSE config
        validatedNodeId == _validateDimensionNodeId(dimensionNodeId, g.vertices)
        validatedHypotheses == _validateHypothesesArray(hypotheses)
        args_ok == validatedNodeId.ok /\ validatedHypotheses.ok
        safeConfig == _validateHypothesisConfig(configArg)
        maxHypotheses == MaxToProcess(safeConfig)
        acc == ProcessHypotheses([g |-> g, hypothesisNodes |-> <<>>, errors |-> <<>>],
                                 dimensionNodeId.s,
                                 Slice(hypotheses.items, maxHypotheses), 1)
        done == [acc.g EXCEPT !.currentStage = HypothesizedStage,
                              !.metadataStage = "hypothesis_planning"]
    IN  IF ~HypothesisStageOk(g.currentStage)
        THEN [g |-> g,
              res |-> Failed("generateHypotheses", g, g.currentStage, args_ok,
                             StageError(g.currentStage, HypothesisStage))]
        ELSE IF ~validatedNodeId.ok
        THEN [g |-> g,
              res |-> Failed("generateHypotheses", g, g.currentStage, args_ok,
                             OtherError("invalid_params"))]
        ELSE IF g.vertices[validatedNodeId.value].type # "dimension"
        THEN [g |-> g,
              res |-> Failed("generateHypotheses", g, g.currentStage, args_ok,
                             OtherError("invalid_params"))]
        ELSE IF ~validatedHypotheses.ok
        THEN [g |-> g,
              res |-> Failed("generateHypotheses", g, g.currentStage, args_ok,
                             OtherError("invalid_params"))]
        ELSE IF NothingCreated(acc.hypothesisNodes)
        THEN [g |-> acc.g,
              res |-> [Failed("generateHypotheses", acc.g, g.currentStage, args_ok,
                              OtherError("no_hypotheses"))
                       EXCEPT !.errors = acc.errors]]
        ELSE [g |-> done,
              res |-> [Returned("generateHypotheses", done, g.currentStage, args_ok)
                       EXCEPT !.created = acc.hypothesisNodes,
                              !.errors = acc.errors,
                              !.warnings = IF acc.errors # <<>>
                                           THEN <<"hypotheses failed to create">>
                                           ELSE <<>>]]

(***************************************************************************)
(* Summary and export                                                      *)
(***************************************************************************)
\* a summary that reports the size of the wrong collection
getGraphSummaryCountingEdges(g) ==
    [format |-> <<>>,
     vertices_count |-> Cardinality(DOMAIN g.edges),
     edges_count |-> Cardinality(DOMAIN g.edges),
     layers_count |-> Cardinality(DOMAIN g.layers),
     current_stage |-> g.currentStage]

getGraphSummary(g) ==
    [format |-> <<>>,
     vertices_count |-> Cardinality(DOMAIN g.vertices),
     edges_count |-> Cardinality(DOMAIN g.edges),
     layers_count |-> Cardinality(DOMAIN g.layers),
     current_stage |-> g.currentStage]

\* vertices: Array.from(this.vertices.values()), one entry per stored node
ExportedVertices(g) == [id \in DOMAIN g.vertices |-> g.vertices[id].type]

\* a trace that counts a stage as completed only once the cursor has passed it
_generateReasoningTraceBehind(g) ==
    [current_stage |-> g.currentStage,
     completed_stages |-> SubSeq(stageNames, 1, g.currentStage),
     stage_progression |->
        [k \in 1..LastStage |->
            IF g.currentStage > k THEN "completed" ELSE "pending"]]

\* completed_stages: this.stageNames.slice(0, this.currentStage)
_generateReasoningTrace(g) ==
    [current_stage |-> g.currentStage,
     completed_stages |->
        SubSeq(stageNames, 1, IF g.currentStage < Len(stageNames)
                              THEN g.currentStage ELSE Len(stageNames)),
     stage_progression |->
        [k \in 1..LastStage |->
            IF g.currentStage >= k THEN "completed" ELSE "pending"]]

\* an export that records the output stage as reached
exportGraphAdvancing(g, format) ==
    LET done == [g EXCEPT !.currentStage = LastStage]
    IN  [g |-> done,
         res |-> [Returned("exportGraph", done, g.currentStage, TRUE)
                  EXCEPT !.graph_data_built = TRUE,
                         !.doc = [getGraphSummary(g) EXCEPT !.format = <<"json">>]
                                     @@ [vertices |-> ExportedVertices(g)]]]

\* exportGraph builds graphData (summary, trace, topology) and only then
\* looks at the format
exportGraph(g, format) ==
    LET formatArg == IF format.k = "undefined" THEN Str(<<"json">>) ELSE format
        args_ok == _validateExportFormat(formatArg).ok
        graphData == getGraphSummary(g)
    IN  IF formatArg.k # "string"
        \* format.toLowerCase is not a function
        THEN [g |-> g,
              res |-> [Threw("exportGraph", g, g.currentStage, args_ok,
                             OtherError("type_error"))
                       EXCEPT !.graph_data_built = TRUE]]
        ELSE IF ToLowerCase(formatArg.s) \notin validFormats
        THEN [g |-> g,
              res |-> [Threw("exportGraph", g, g.currentStage, args_ok,
                             OtherError("unsupported_format"))
                       EXCEPT !.graph_data_built = TRUE]]
        ELSE [g |-> g,
              res |-> [Returned("exportGraph", g, g.currentStage, args_ok)
                       EXCEPT !.graph_data_built = TRUE,
                              !.doc = [graphData EXCEPT
                                          !.format = ToLowerCase(formatArg.s)]
                                      @@ [vertices |-> ExportedVertices(g),
                                          reasoning_trace |->
                                              _generateReasoningTrace(g)]]]

(***************************************************************************)
(* Arguments the calls are tried with                                      *)
(***************************************************************************)
ShortestDescription == Desc(1, MinDescriptionLength, 2)
LongestDescription == Desc(1, MaxDescriptionLength, 0)

TaskDescriptions ==
    {ShortestDescription, LongestDescription,
     Desc(1, MinDescriptionLength - 1, 1), Desc(0, MaxDescriptionLength + 1, 0),
     Desc(3, 0, 0), NoDesc("null"), NoDesc("number")}

\* [0.8, null, 0.9, 0.6]
NullConfidence == [k |-> "array", items |-> <<Num(80), NoNum("null"), Num(90), Num(60)>>]

Confidences ==
    {NoConfidence,
     Vec(80, 0, 90, 60),
     Vec(80, 70, 120, 60),
     NullConfidence,
     [k |-> "array", items |-> <<Num(80), NoNum("string"), Num(90), Num(60)>>],
     [k |-> "array", items |-> <<Num(80), Num(70), Num(90)>>],
     [k |-> "number", items |-> <<>>]}

TaggedConfig ==
    Config(Arr(<<Str(<<" ", "genetics">>), Str(<<>>), NoStr("number")>>),
           Arr(<<Str(<<"Dr. Smith", " ">>)>>), "true", NoNum("undefined"))

InitConfigs ==
    {NoConfig("undefined"),
     NoConfig("null"),
     TaggedConfig,
     Config(NoArr("string"), NoArr("undefined"), "undefined", NoNum("undefined")),
     NoConfig("array")}

\* initialize(taskDescription, initialConfidence, config): every description
\* with the defaults, the shortest one with a confidence and a config, and
\* every rejected confidence and config with the longest one
InitializeCalls ==
    {<<d, NoConfidence, NoConfig("undefined")>> :
        d \in TaskDescriptions \ {ShortestDescription}}
    \cup {<<ShortestDescription, Vec(80, 0, 90, 60), TaggedConfig>>,
          <<ShortestDescription, NullConfidence, TaggedConfig>>,
          <<LongestDescription, NoConfidence, NoConfig("null")>>}
    \cup {<<LongestDescription, c, TaggedConfig>> :
            c \in Confidences \ {NoConfidence, Vec(80, 0, 90, 60), NullConfidence}}
    \cup {<<LongestDescription, Vec(80, 0, 90, 60), c>> :
            c \in InitConfigs \ {NoConfig("undefined"), NoConfig("null"), TaggedConfig}}

\* the custom dimensions asked for are the first names of this list
DimensionNames == <<<<"Custom">>, <<"Potential", " ", "Biases">>, <<"Scope">>>>

RECURSIVE SeqsUpTo(_, _)
SeqsUpTo(S, n) ==
    IF n = 0 THEN {<<>>}
    ELSE LET shorter == SeqsUpTo(S, n - 1)
         IN  shorter \cup {Append(q, x) : q \in {r \in shorter : Len(r) = n - 1}, x \in S}

DimensionInputs ==
    {[k |-> "undefined", items |-> <<>>], [k |-> "null", items |-> <<>>],
     [k |-> "object", items |-> <<>>]}
    \cup {[k |-> "array", items |-> SubSeq(DimensionNames, 1, n)] : n \in 0..MaxDims}

DimensionIdInputs ==
    {Id(DimId(1)), Id(DimId(6)), Id(DimId(9)), Id(n0), Id(HypId(1, 1)),
     [k |-> "null", s |-> <<>>]}

ValidString == StringItem(<<" ", "H", "text">>)
EmptyString == StringItem(<<>>)

CoreItems == {ValidString, EmptyString}

Repeat(x, n) == [i \in 1..n |-> x]

\* the collections of MaxHypotheses items and more that are tried
LongCollections ==
    {Repeat(ValidString, n) : n \in MaxHypotheses..(MaxHypotheses + 1)}
    \cup {Repeat(EmptyString, MaxHypotheses),
          [i \in 1..MaxHypotheses |-> IF i = 2 THEN EmptyString ELSE ValidString],
          [i \in 1..MaxHypotheses |-> IF i = 1 THEN EmptyString ELSE ValidString]}

\* { content: 'Valid hypothesis' }: no plan, no falsification_criteria
ContentOnly ==
    ObjectItem(Str(<<"Valid", "hypothesis">>), NoConfidence, NoStr("undefined"),
               NoPlan("undefined"), NoNum("undefined"))

SpecialCollections ==
    {Repeat(ContentOnly, MinHypotheses),
     <<StringItem(<<"This", "is", "Always", "proven">>),
       OtherItem("null"),
       ObjectItem(Str(<<>>), NoConfidence, NoStr("undefined"), NoPlan("undefined"),
                  NoNum("undefined")),
       ObjectItem(Str(<<"Valid", "hypothesis">>), NoConfidence, NoStr("undefined"),
                  NoPlan("undefined"), NoNum("undefined")),
       ObjectItem(NoStr("undefined"), NoConfidence, NoStr("undefined"),
                  NoPlan("undefined"), NoNum("undefined"))>>,
     <<ObjectItem(Str(<<"H1">>), Vec(50, 70, 60, 90), Str(<<"If", "no", "effect">>),
                  Plan(Str(<<"experimental_study">>)), Num(80)),
       ObjectItem(Str(<<"H2">>), Vec(50, 70, 60, 190), Str(<<" ">>),
                  NoPlan("undefined"), NoNum("undefined")),
       ObjectItem(Str(<<"H3">>), NoConfidence, NoStr("undefined"),
                  Plan(NoStr("undefined")), Num(0)),
       ObjectItem(Str(<<"H4">>), NoConfidence, NoStr("undefined"),
                  NoPlan("undefined"), Num(0))>>}

HypothesesInputs ==
    {[k |-> "array", items |-> q] :
        q \in {r \in SeqsUpTo(CoreItems, MaxHyps) : Len(r) >= MinHypotheses}
              \cup {Repeat(ValidString, MinHypotheses - 1)}
              \cup LongCollections \cup SpecialCollections}
    \cup {[k |-> "string", items |-> <<>>]}

HypothesisConfigs ==
    {NoConfig("undefined"),
     [EmptyConfig EXCEPT !.max_hypotheses = Num(0)],
     [EmptyConfig EXCEPT !.max_hypotheses = Num(1)],
     [EmptyConfig EXCEPT !.max_hypotheses = Num(MaxHypotheses + 2)]}

\* generateHypotheses(dimensionNodeId, hypotheses, config): every collection
\* on node 2.1, every id with one collection, every config with two
GenerateCalls ==
    {<<Id(DimId(1)), h, NoConfig("undefined")>> : h \in HypothesesInputs}
    \cup {<<id, Arr(Repeat(ValidString, MaxHypotheses)), NoConfig("undefined")>> :
            id \in DimensionIdInputs}
    \cup {<<Id(DimId(1)), Arr(q), c>> :
            q \in {Repeat(ValidString, MaxHypotheses),
                    [i \in 1..MaxHypotheses |-> IF i = 2 THEN EmptyString ELSE ValidString]},
            c \in HypothesisConfigs}

Formats ==
    {NoStr("undefined"), Str(<<"json">>), Str(<<"JSON">>), Str(<<"Yaml">>),
     Str(<<"xml">>), Str(<<>>), NoStr("null"), NoStr("number")}

(***************************************************************************)
(* One instance driven through its methods                                 *)
(***************************************************************************)
Graph ==
    [vertices |-> vertices, edges |-> edges, layers |-> layers,
     nodeTypes |-> nodeTypes, currentStage |-> currentStage,
     metadataStage |-> metadataStage]

\* what is kept of a call: the operation and the tool name it came by;
\* for initialize the description and whether the confidence is an array of
\* four numbers in [0,1] (or left out) and the config passes _validateConfig;
\* for decompose the list of names asked for; for generateHypotheses whether
\* the id named a dimension node of the store, which items of the collection
\* pass the per-item validation, which of them come without a plan or without
\* falsification criteria, and the max_hypotheses asked for
Called(op) ==
    [op |-> op, tool |-> "", description |-> NoDesc("undefined"),
     confidence_ok |-> FALSE, config_ok |-> FALSE,
     dimensions_given |-> FALSE, dimensions |-> <<>>,
     dimension |-> <<>>, dimension_ok |-> FALSE,
     is_array |-> FALSE, items_ok |-> <<>>, items_plain |-> <<>>,
     max_hypotheses |-> NoNum("undefined"),
     format |-> NoStr("undefined"),
     stage_replaced |-> 0,
     enable_multi_layer |-> "undefined",
     items_impact |-> <<>>]

ExportCalled(format) == [Called("exportGraph") EXCEPT !.format = format]

InitializeCalled(taskDescription, initialConfidence, config) ==
    [Called("initialize") EXCEPT
        !.description = taskDescription,
        !.confidence_ok =
            \/ initialConfidence.k = "undefined"
            \/ /\ initialConfidence.k = "array"
               /\ Len(initialConfidence.items) = 4
               /\ \A i \in 1..4 : /\ initialConfidence.items[i].k = "number"
                                  /\ initialConfidence.items[i].n \in 0..100,
        !.config_ok = _validateConfig(IF config.k = "undefined"
                                      THEN EmptyConfig ELSE config).ok,
        !.enable_multi_layer = IF config.k = "object"
                               THEN config.enable_multi_layer ELSE "undefined"]

DecomposeCalled(customDimensions) ==
    [Called("decompose") EXCEPT
        !.dimensions_given = customDimensions.k = "array",
        !.dimensions = IF customDimensions.k = "array"
                       THEN customDimensions.items ELSE defaultDimensions]

GenerateCalled(dimensionNodeId, hypotheses, config) ==
    [Called("generateHypotheses") EXCEPT
        !.dimension = dimensionNodeId.s,
        !.dimension_ok = /\ dimensionNodeId.k = "string"
                         /\ dimensionNodeId.s \in DOMAIN vertices
                         /\ vertices[dimensionNodeId.s].type = "dimension",
        !.is_array = hypotheses.k = "array",
        !.items_ok = [i \in 1..Len(hypotheses.items) |->
                        _validateHypothesis(hypotheses.items[i]).ok],
        !.items_plain = [i \in 1..Len(hypotheses.items) |->
                           LET h == hypotheses.items[i]
                           IN  \/ h.k = "string"
                               \/ h.k = "object"
                                  /\ (h.plan.k = "undefined"
                                      \/ h.falsification_criteria.k = "undefined")],
        !.max_hypotheses = IF config.k = "object" THEN config.max_hypotheses
                           ELSE NoNum("undefined"),
        \* the impact_score each item supplies; a string item supplies none
        !.items_impact = [i \in 1..Len(hypotheses.items) |->
                            IF hypotheses.items[i].k = "object"
                            THEN hypotheses.items[i].impact_score
                            ELSE NoNum("undefined")]]

Install(g) ==
    /\ vertices' = g.vertices
    /\ edges' = g.edges
    /\ layers' = g.layers
    /\ nodeTypes' = g.nodeTypes
    /\ currentStage' = g.currentStage
    /\ metadataStage' = g.metadataStage

Apply(c, r) ==
    /\ Install(r.g)
    /\ call' = c
    /\ result' = r.res
    /\ UNCHANGED graphExists

Init ==
    /\ graphExists = TRUE
    /\ \E enable_multi_layer \in {"undefined", "true", "false"} :
          LET g == ResearchQuestGraph(enable_multi_layer)
          IN  /\ vertices = g.vertices
              /\ edges = g.edges
              /\ layers = g.layers
              /\ nodeTypes = g.nodeTypes
              /\ currentStage = g.currentStage
              /\ metadataStage = g.metadataStage
    /\ call = Called("none")
    /\ result = NoResult

Initialize ==
    \E args \in InitializeCalls :
        Apply(InitializeCalled(args[1], args[2], args[3]),
              initialize(Graph, args[1], args[2], args[3]))

Decompose ==
    \E customDimensions \in DimensionInputs :
        Apply(DecomposeCalled(customDimensions), decomposeTask(Graph, customDimensions))

GenerateHypotheses ==
    \E args \in GenerateCalls :
        Apply(GenerateCalled(args[1], args[2], args[3]),
              generateHypotheses(Graph, args[1], args[2], args[3]))

GetGraphSummary ==
    Apply(Called("getGraphSummary"),
          [g |-> Graph,
           res |-> [Returned("getGraphSummary", Graph, currentStage, TRUE)
                    EXCEPT !.doc = getGraphSummary(Graph)]])

ExportGraph ==
    \E format \in Formats :
        Apply(ExportCalled(format), exportGraph(Graph, format))

Next ==
    \/ Initialize
    \/ Decompose
    \/ GenerateHypotheses
    \/ GetGraphSummary
    \/ ExportGraph

Spec == Init /\ [][Next]_vars

(***************************************************************************)
(* The server: one currentGraph, null until a tool call installs one, and  *)
(* the CallToolRequestSchema handler that dispatches on the tool name      *)
(***************************************************************************)
\* the names the tools list advertises, and the names the handler's switch knows
advertisedTools ==
    {"initialize_research_quest_graph", "decompose_research_task",
     "generate_hypotheses", "get_graph_summary", "export_graph_data"}

handledTools ==
    {"initialize_asr_got_graph", "decompose_research_task",
     "generate_hypotheses", "get_graph_summary", "export_graph_data"}

\* JavaScript's !x for the values an argument is tried with
Falsy(x) ==
    \/ x.k \in {"null", "undefined"}
    \/ x.k = "string" /\ "s" \in DOMAIN x /\ x.s = <<>>
    \/ x.k = "string" /\ "len" \in DOMAIN x /\ x.padL + x.len + x.padR = 0

NoGraph == [ResearchQuestGraph("false") EXCEPT !.metadataStage = "none"]

\* a tool call leaves [exists, g, res]: whether currentGraph is set, the graph
\* it refers to, and what the caller gets (threw = TRUE for an McpError)
McpError(op, kind) ==
    [exists |-> graphExists, g |-> Graph,
     res |-> Threw(op, Graph, currentStage, FALSE, OtherError(kind))]

Fallback(op, kind) ==
    [exists |-> graphExists, g |-> Graph,
     res |-> Failed(op, Graph, currentStage, FALSE, OtherError(kind))]

Handled(r) == [exists |-> TRUE, g |-> r.g, res |-> r.res]

\* a raw Error of the class is rethrown as McpError(InternalError)
Rethrown(r) ==
    IF r.res.threw THEN [r EXCEPT !.res.error.kind = "internal_error"] ELSE r

\* a switch without the initialize case: the call falls to default
ToolInitializeUnknown(task_description, initial_confidence, config) ==
    McpError("unknown", "method_not_found")

\* a handler that builds a graph only when there is none yet
CurrentOrFreshGraph(config) ==
    IF graphExists THEN Graph
    ELSE ResearchQuestGraph(IF config.k = "object"
                            THEN config.enable_multi_layer ELSE "undefined")

\* currentGraph = new ResearchQuestGraph(args.config || {})
FreshGraph(config) ==
    ResearchQuestGraph(IF config.k = "object"
                       THEN config.enable_multi_layer ELSE "undefined")

\* case 'initialize_asr_got_graph'
ToolInitialize(task_description, initial_confidence, config) ==
    IF Falsy(task_description) THEN McpError("initialize", "invalid_params")
    ELSE Handled(initialize(FreshGraph(config), task_description,
                            initial_confidence, config))

\* case 'decompose_research_task'
ToolDecompose(dimensions) ==
    IF ~graphExists THEN McpError("decompose", "invalid_request")
    ELSE LET checked == IF dimensions.k \notin {"undefined", "array"}
                        THEN NoArr("undefined") ELSE dimensions
         IN  Handled(Rethrown(decomposeTask(Graph, checked)))

\* case 'generate_hypotheses'
ToolGenerate(dimension_node_id, hypotheses, config) ==
    IF ~graphExists THEN McpError("generateHypotheses", "invalid_request")
    ELSE IF Falsy(dimension_node_id) \/ Falsy(hypotheses)
    THEN McpError("generateHypotheses", "invalid_params")
    ELSE Handled(generateHypotheses(Graph, dimension_node_id, hypotheses, config))

\* case 'get_graph_summary'
ToolSummary ==
    IF ~graphExists THEN Fallback("getGraphSummary", "invalid_request")
    ELSE Handled([g |-> Graph,
                  res |-> [Returned("getGraphSummary", Graph, currentStage, TRUE)
                           EXCEPT !.doc = getGraphSummary(Graph)]])

\* case 'export_graph_data'
ToolExport(format) ==
    LET chosen == IF Falsy(format) THEN Str(<<"json">>) ELSE format
    IN  IF ~graphExists THEN Fallback("exportGraph", "invalid_request")
        ELSE IF chosen.k # "string" \/ ToLowerCase(chosen.s) \notin validFormats
        THEN Fallback("exportGraph", "invalid_params")
        ELSE Handled(exportGraph(Graph, Str(ToLowerCase(chosen.s))))

ToolCalled(c, name) == [c EXCEPT !.tool = name]

ServerApply(c, r) ==
    /\ Install(r.g)
    /\ graphExists' = r.exists
    /\ call' = c
    /\ result' = r.res

ServerInit ==
    /\ graphExists = FALSE
    /\ vertices = NoGraph.vertices
    /\ edges = NoGraph.edges
    /\ layers = NoGraph.layers
    /\ nodeTypes = NoGraph.nodeTypes
    /\ currentStage = NoGraph.currentStage
    /\ metadataStage = NoGraph.metadataStage
    /\ call = Called("none")
    /\ result = NoResult

ToolInitializeCalls ==
    InitializeCalls
    \cup {<<d, NoConfidence, NoConfig("undefined")>> :
            d \in {Desc(0, 0, 0), NoDesc("undefined")}}
    \cup {<<LongestDescription, NoConfidence,
            Config(NoArr("undefined"), NoArr("undefined"), "false", NoNum("undefined"))>>}

CallInitialize ==
    \E args \in ToolInitializeCalls :
        \* stage_replaced keeps the cursor of the graph the call finds
        ServerApply([ToolCalled(InitializeCalled(args[1], args[2], args[3]),
                                "initialize_asr_got_graph")
                        EXCEPT !.stage_replaced = currentStage],
                    ToolInitialize(args[1], args[2], args[3]))

CallDecompose ==
    \E dimensions \in DimensionInputs :
        ServerApply(ToolCalled(DecomposeCalled(dimensions), "decompose_research_task"),
                    ToolDecompose(dimensions))

CallGenerate ==
    \E args \in GenerateCalls \cup {<<Id(<<>>), Arr(<<>>), NoConfig("undefined")>>,
                                    <<Id(DimId(1)), NoArr("null"), NoConfig("undefined")>>} :
        ServerApply(ToolCalled(GenerateCalled(args[1], args[2], args[3]),
                               "generate_hypotheses"),
                    ToolGenerate(args[1], args[2], args[3]))

CallSummary ==
    ServerApply(ToolCalled(Called("getGraphSummary"), "get_graph_summary"), ToolSummary)

CallExport ==
    \E format \in Formats :
        ServerApply(ToolCalled(ExportCalled(format), "export_graph_data"),
                    ToolExport(format))

\* default: of the switch
CallUnknown ==
    \E name \in (advertisedTools \ handledTools) \cup {"no_such_tool"} :
        ServerApply(ToolCalled(Called("unknown"), name),
                    McpError("unknown", "method_not_found"))

\* `!args || typeof args !== 'object'`
CallWithoutArguments ==
    \E name \in handledTools :
        ServerApply(ToolCalled(Called("unknown"), name),
                    McpError("unknown", "invalid_params"))

ServerNext ==
    \/ CallInitialize
    \/ CallDecompose
    \/ CallGenerate
    \/ CallSummary
    \/ CallExport
    \/ CallUnknown
    \/ CallWithoutArguments

SpecServer == ServerInit /\ [][ServerNext]_vars

(***************************************************************************)
(* Properties                                                              *)
(***************************************************************************)
NodesOfType(t) == {id \in DOMAIN vertices : vertices[id].type = t}

\* the nodes, the edges, the members of the layers that have any, the cursor
StoreView ==
    <<vertices, edges,
      [l \in {x \in DOMAIN layers : layers[x] # EmptyLayer} |-> layers[l]],
      currentStage>>

\* the stage each stage-advancing operation expects to start from
ExpectedStage(op) ==
    CASE op = "initialize" -> InitializeStage
      [] op = "decompose" -> DecomposeStage
      [] op = "generateHypotheses" -> HypothesisStage

\* the items of a generateHypotheses call that are processed: the first
\* max_hypotheses of them, five at most
ProcessedOf(c) ==
    LET m == c.max_hypotheses
        limit == IF m.k = "number" /\ m.n >= 1 /\ m.n < MaxHypotheses
                 THEN m.n ELSE MaxHypotheses
    IN  SubSeq(c.items_ok, 1, IF Len(c.items_ok) < limit THEN Len(c.items_ok) ELSE limit)

ValidProcessed(c) == {i \in 1..Len(ProcessedOf(c)) : ProcessedOf(c)[i]}

\* C1: over initialize, decompose and generateHypotheses calls on one
\* instance, every change of the stage cursor is an increase by exactly 1.
\* The code does not keep this: an initialize past stage 0 resets the cursor.
C1_CursorStepsByOne ==
    [][currentStage' = currentStage \/ currentStage' = currentStage + 1]_vars

\* C2: initialize, decompose or generateHypotheses invoked while the cursor
\* differs from the stage it expects fails naming the current and the
\* expected stage, and leaves nodes, edges, layer memberships and cursor as
\* they were.  The code does not keep this for initialize.
C2_WrongStageChangesNothing ==
    [][\A op \in {"initialize", "decompose", "generateHypotheses"} :
          (call'.op = op /\ currentStage # ExpectedStage(op))
          => /\ ~result'.success
             /\ result'.error = StageError(currentStage, ExpectedStage(op))
             /\ StoreView' = StoreView]_vars

\* C3: in every reachable state with cursor s the store holds what stages
\* 1..s create (the root n0 from 1 on; every requested dimension node with
\* its edge from n0 from 2 on; at least one hypothesis node with its edge at
\* 3), and an operation that reports failure has not advanced the cursor.
C3_StoreBeforeCursor ==
    /\ currentStage >= 1 => NodesOfType("root") = {n0}
    /\ currentStage >= 2 =>
          /\ \A id \in NodesOfType("dimension") :
                /\ EdgeId(n0, id) \in DOMAIN edges
                /\ edges[EdgeId(n0, id)].source = n0
                /\ edges[EdgeId(n0, id)].target = id
          /\ (result.op = "decompose" /\ result.success)
             => \A i \in 1..Len(result.created) :
                   result.created[i] \in NodesOfType("dimension")
    /\ currentStage = 3 =>
          \E id \in NodesOfType("hypothesis") :
             \E d \in NodesOfType("dimension") :
                /\ EdgeId(d, id) \in DOMAIN edges
                /\ edges[EdgeId(d, id)].target = id
    /\ ~result.success => currentStage <= result.stage_before

\* C3 happens: a generateHypotheses that lost an item still reached stage 3
C3_Witness ==
    /\ currentStage = 3
    /\ result.op = "generateHypotheses"
    /\ result.success
    /\ result.errors # <<>>
    /\ Cardinality(NodesOfType("dimension")) = Len(defaultDimensions)

\* C4: a call rejected because a parameter is invalid leaves the existing
\* graph's nodes, edges, layer memberships and cursor as they were.  The
\* handler does not keep this: its initialize case replaces currentGraph
\* before the arguments are validated.
C4_RejectedParameterChangesNothing ==
    [][(graphExists /\ result'.error.kind = "invalid_params")
       => (graphExists' /\ StoreView' = StoreView)]_vars

\* C5: each of the five operations returns a structured result and never
\* throws to its caller.  The code does not keep this for decomposeTask and
\* exportGraph.
C5_NothingThrown == ~result.threw

\* C6: a second initialize with valid arguments on an instance that was
\* initialized does not throw and leaves exactly the vertex n0, no edge and
\* cursor 1.  The code fails the call and leaves the instance empty.
C6_SecondInitializeStartsOver ==
    (result.op = "initialize" /\ result.args_ok /\ result.stage_before >= 1)
    => /\ ~result.threw
       /\ result.success
       /\ DOMAIN vertices = {n0}
       /\ DOMAIN edges = {}
       /\ currentStage = 1

\* C7: the store holds at most one root node, its id is n0, it was created
\* by an initialize call that started at cursor 0, and no other operation
\* creates, replaces or removes it.
C7_SingleRoot ==
    /\ [](NodesOfType("root") \subseteq {n0})
    /\ [][/\ (n0 \in DOMAIN vertices'
              /\ (n0 \notin DOMAIN vertices \/ vertices'[n0] # vertices[n0]))
             => (call'.op = "initialize" /\ currentStage = 0)
          /\ call'.op # "initialize"
             => /\ (n0 \in DOMAIN vertices') = (n0 \in DOMAIN vertices)
                /\ n0 \in DOMAIN vertices => vertices'[n0] = vertices[n0]]_vars

\* C7 happens: decompose has acted on a store that holds the root
C7_Witness ==
    /\ result.op = "decompose"
    /\ result.success
    /\ NodesOfType("root") = {n0}
    /\ Cardinality(DOMAIN vertices) > 1

\* C8: the cursor is in {0,1,2,3} in every reachable state, and it rises only
\* 0->1 by initialize, 1->2 by decompose and 2->3 by generateHypotheses.
C8_OnlyThreeTransitions ==
    /\ [](currentStage \in {0, 1, 2, 3})
    /\ [][currentStage' > currentStage
          => \/ currentStage = 0 /\ currentStage' = 1 /\ call'.op = "initialize"
             \/ currentStage = 1 /\ currentStage' = 2 /\ call'.op = "decompose"
             \/ currentStage = 2 /\ currentStage' = 3
                /\ call'.op = "generateHypotheses"]_vars

\* C8 happens: generateHypotheses has taken the cursor from 2 to its last value
C8_Witness ==
    /\ currentStage = 3
    /\ result.op = "generateHypotheses"
    /\ result.stage_before = 2

\* generateHypotheses was called at cursor 2 with the id of a dimension node
\* and a collection of 3 to 5 items, some of them invalid
C9_Case ==
    /\ call.op = "generateHypotheses"
    /\ result.stage_before = 2
    /\ call.dimension_ok
    /\ call.is_array
    /\ Len(call.items_ok) \in 3..5
    /\ \E i \in 1..Len(call.items_ok) : ~call.items_ok[i]

\* C9: such a call succeeds if and only if a processed item is valid; then
\* there is exactly one hypothesis node per valid processed item and one
\* entry of the errors list per invalid processed item.
C9_PartialSuccess ==
    C9_Case
    => /\ result.success = (ValidProcessed(call) # {})
       /\ result.success
          => /\ NodesOfType("hypothesis")
                   = {HypId(call.dimension[2], i) : i \in ValidProcessed(call)}
             /\ Len(result.created) = Cardinality(ValidProcessed(call))
             /\ Len(result.errors)
                   = Len(ProcessedOf(call)) - Cardinality(ValidProcessed(call))

\* C9 happens: 5 items with only item 2 invalid gave 4 nodes and 1 error
C9_Witness ==
    /\ C9_Case
    /\ call.items_ok = <<TRUE, FALSE, TRUE, TRUE, TRUE>>
    /\ result.success
    /\ Cardinality(NodesOfType("hypothesis")) = 4
    /\ Len(result.errors) = 1

\* C10: generateHypotheses called at cursor 2 with every processed item
\* invalid returns success=false, and the cursor, the nodes, the edges and
\* the layer memberships are what they were.
C10_AllInvalidChangesNothing ==
    [][(/\ call'.op = "generateHypotheses"
        /\ currentStage = 2
        /\ call'.is_array
        /\ ValidProcessed(call') = {})
       => /\ ~result'.success
          /\ currentStage' = 2
          /\ StoreView' = StoreView]_vars

\* C10 happens: a collection of 3 items, all invalid, was turned down at cursor 2
C10_Witness ==
    /\ call.op = "generateHypotheses"
    /\ call.dimension_ok
    /\ call.items_ok = <<FALSE, FALSE, FALSE>>
    /\ result.error.kind = "no_hypotheses"
    /\ currentStage = 2

\* C11: generateHypotheses at cursor 2 with a collection that is not an
\* array, or has fewer than 3 or more than 5 items, is rejected as a whole
\* whatever its items are: no success, no node or edge created, cursor 2.
C11_CollectionRejectedWhole ==
    [][(/\ call'.op = "generateHypotheses"
        /\ currentStage = 2
        /\ (~call'.is_array \/ Len(call'.items_ok) \notin 3..5))
       => /\ ~result'.success
          /\ currentStage' = 2
          /\ StoreView' = StoreView]_vars

\* C11 happens: six valid items on a dimension node at cursor 2 were turned down
C11_Witness ==
    /\ call.op = "generateHypotheses"
    /\ call.dimension_ok
    /\ call.is_array
    /\ Len(call.items_ok) = 6
    /\ \A i \in 1..6 : call.items_ok[i]
    /\ result.stage_before = 2
    /\ ~result.success
    /\ currentStage = 2
    /\ NodesOfType("hypothesis") = {}

\* the hypothesis nodes hanging from a dimension node
HypothesisChildren(dimension) ==
    {id \in NodesOfType("hypothesis") : EdgeId(dimension, id) \in DOMAIN edges}

\* C12: after every successful generate_hypotheses call for a dimension
\* node, that node has between 3 and 5 hypothesis child nodes.
C12_ThreeToFiveChildren ==
    (call.tool = "generate_hypotheses" /\ result.success)
        => Cardinality(HypothesisChildren(call.dimension)) \in MinHypotheses..MaxHypotheses

\* the ids 3.<d>.<k> of the accepted items of a call, k their position among
\* the processed items, in order
RECURSIVE ExpectedIds(_, _, _)
ExpectedIds(c, d, k) ==
    IF k > Len(ProcessedOf(c)) THEN <<>>
    ELSE (IF ProcessedOf(c)[k] THEN <<HypId(d, k)>> ELSE <<>>) \o ExpectedIds(c, d, k + 1)

\* C13: a successful generateHypotheses on 2.<d> creates, for each accepted
\* item at position k of the processed items, the node 3.<d>.<k> and exactly
\* one edge 2.<d> -> 3.<d>.<k> typed Hypothesis (three valid items: 3.<d>.1,
\* 3.<d>.2, 3.<d>.3); every node is stored under its own id and no stored
\* node is replaced, so no two nodes share an id.
C13_HypothesisIds ==
    [][(call'.op = "generateHypotheses" /\ result'.success)
       => LET d == call'.dimension[2]
              ids == ExpectedIds(call', d, 1)
          IN  /\ result'.created = ids
              /\ NodesOfType("hypothesis")' = {ids[i] : i \in 1..Len(ids)}
              /\ \A i \in 1..Len(ids) :
                    /\ ids[i] \notin DOMAIN vertices
                    /\ vertices'[ids[i]].node_id = ids[i]
                    /\ {e \in DOMAIN edges' : edges'[e].target = ids[i]}
                           = {EdgeId(DimId(d), ids[i])}
                    /\ edges'[EdgeId(DimId(d), ids[i])].source = DimId(d)
                    /\ edges'[EdgeId(DimId(d), ids[i])].metadata.edge_type = "Hypothesis"
              /\ (Len(call'.items_ok) = 3 /\ \A i \in 1..3 : call'.items_ok[i])
                    => result'.created = <<HypId(d, 1), HypId(d, 2), HypId(d, 3)>>
              /\ \A id \in DOMAIN vertices :
                    id \in DOMAIN vertices' /\ vertices'[id] = vertices[id]
              /\ \A id \in DOMAIN vertices' : vertices'[id].node_id = id]_vars

\* C13 happens: three valid items on 2.1 gave 3.1.1, 3.1.2, 3.1.3
C13_Witness ==
    /\ call.op = "generateHypotheses"
    /\ result.success
    /\ call.items_ok = <<TRUE, TRUE, TRUE>>
    /\ call.dimension = DimId(1)
    /\ result.created = <<HypId(1, 1), HypId(1, 2), HypId(1, 3)>>
    /\ \A k \in 1..3 : EdgeId(DimId(1), HypId(1, k)) \in DOMAIN edges

\* C14: generateHypotheses at cursor 2 with a dimension id that is malformed,
\* names no node, or names a node that is not a dimension, fails without
\* throwing, creates no node or edge, leaves the cursor at 2, and a later call
\* with an existing dimension id still succeeds.
C14_BadDimensionIdRecoverable ==
    [][(/\ call'.op = "generateHypotheses"
        /\ currentStage = 2
        /\ ~call'.dimension_ok)
       => /\ ~result'.success
          /\ ~result'.threw
          /\ result'.error.kind = "invalid_params"
          /\ StoreView' = StoreView
          /\ currentStage' = 2
          /\ DimId(1) \in DOMAIN vertices'
                => generateHypotheses(Graph', Id(DimId(1)),
                                      Arr(Repeat(ValidString, MinHypotheses)),
                                      NoConfig("undefined")).res.success]_vars

\* C14 happens: a well-formed id of a node that does not exist was turned
\* down at cursor 2 in a graph that has dimension nodes
C14_Witness ==
    /\ call.op = "generateHypotheses"
    /\ call.dimension = DimId(9)
    /\ call.is_array
    /\ result.stage_before = 2
    /\ ~result.success
    /\ currentStage = 2
    /\ DimId(1) \in DOMAIN vertices
    /\ DimId(9) \notin DOMAIN vertices
    /\ NodesOfType("hypothesis") = {}

\* the positions of the input that left a trace: a created node or an
\* errors entry
Traces == {result.created[i][3] : i \in 1..Len(result.created)}
              \cup {result.errors[i] : i \in 1..Len(result.errors)}

\* C15 as stated: with max_hypotheses given, at most min(max_hypotheses, 5)
\* items are processed.
C15_AtMostMinOfMaxAndFive ==
    (call.op = "generateHypotheses" /\ call.max_hypotheses.k = "number")
        => Cardinality(Traces)
              <= (IF call.max_hypotheses.n < MaxHypotheses
                  THEN call.max_hypotheses.n ELSE MaxHypotheses)

\* C15, amended: generateHypotheses processes the first 5 items at most, and
\* the first max_hypotheses at most when config.max_hypotheses is a number
\* from 1 to 5 (any other value counts as 5); the items beyond that position
\* produce no node, no edge and no errors entry.
C15_ProcessedFromFront ==
    (/\ call.op = "generateHypotheses"
     /\ result.stage_before = 2
     /\ call.dimension_ok
     /\ call.is_array
     /\ Len(call.items_ok) \in MinHypotheses..MaxHypotheses)
        => LET limit == Len(ProcessedOf(call))
           IN  /\ limit <= MaxHypotheses
               /\ (call.max_hypotheses.k = "number" /\ call.max_hypotheses.n \in 1..MaxHypotheses)
                     => limit <= call.max_hypotheses.n
               /\ Traces = 1..limit
               /\ \A id \in NodesOfType("hypothesis") : id[3] <= limit
               /\ \A e \in DOMAIN edges :
                     Len(edges[e].target) = 3 => edges[e].target[3] <= limit

\* C15 happens: five items with max_hypotheses 1 gave one node and nothing
\* for the invalid second item
C15_Witness ==
    /\ call.op = "generateHypotheses"
    /\ call.max_hypotheses = Num(1)
    /\ call.items_ok = <<TRUE, FALSE, TRUE, TRUE, TRUE>>
    /\ result.success
    /\ result.created = <<HypId(1, 1)>>
    /\ result.errors = <<>>
    /\ NodesOfType("hypothesis") = {HypId(1, 1)}

\* C16: a hypothesis item that lacks plan or falsification_criteria is still
\* accepted, a node is created for it, and the result of that call carries a
\* non-empty warnings field.
C16_MissingFieldsWarned ==
    (/\ call.op = "generateHypotheses"
     /\ result.success
     /\ \E i \in ValidProcessed(call) : call.items_plain[i])
        => /\ \A i \in ValidProcessed(call) :
                HypId(call.dimension[2], i) \in NodesOfType("hypothesis")
           /\ result.warnings # <<>>

\* C17: a successful decompose given a list of k dimension names (the
\* default list has 7) creates exactly the dimension nodes 2.1 .. 2.k, node
\* 2.<i> labelled with the i-th name, exactly one edge n0 -> 2.<i> typed
\* Decomposition per node, and sets the cursor to 2; with the default list
\* node 2.6 is labelled Potential Biases.
C17_DimensionNodesInListOrder ==
    (call.op = "decompose" /\ result.success)
        => LET k == Len(call.dimensions)
           IN  /\ ~call.dimensions_given => k = 7
               /\ NodesOfType("dimension") = {DimId(i) : i \in 1..k}
               /\ \A i \in 1..k :
                     /\ vertices[DimId(i)].node_id = DimId(i)
                     /\ vertices[DimId(i)].label = call.dimensions[i]
                     /\ {e \in DOMAIN edges : edges[e].target = DimId(i)}
                            = {EdgeId(n0, DimId(i))}
                     /\ edges[EdgeId(n0, DimId(i))].source = n0
                     /\ edges[EdgeId(n0, DimId(i))].metadata.edge_type = "Decomposition"
               /\ DOMAIN edges = {EdgeId(n0, DimId(i)) : i \in 1..k}
               /\ currentStage = 2
               /\ ~call.dimensions_given
                     => vertices[DimId(6)].label = <<"Potential", " ", "Biases">>

\* C17 happens: the default list gave seven nodes, 2.6 being Potential Biases
C17_Witness ==
    /\ call.op = "decompose"
    /\ result.success
    /\ ~call.dimensions_given
    /\ Cardinality(NodesOfType("dimension")) = 7
    /\ vertices[DimId(6)].label = <<"Potential", " ", "Biases">>
    /\ EdgeId(n0, DimId(7)) \in DOMAIN edges
    /\ currentStage = 2

\* C17 happens for a list of the caller as well
C17_CustomWitness ==
    /\ call.op = "decompose"
    /\ result.success
    /\ call.dimensions = <<<<"Custom">>>>
    /\ NodesOfType("dimension") = {DimId(1)}

\* the labels of the dimension nodes
DimensionLabels == {vertices[id].label : id \in NodesOfType("dimension")}

\* C18: after every successful decompose_research_task call, with the default
\* list or with a list of the caller, the graph has a dimension node labelled
\* Potential Biases and one labelled Knowledge Gaps.
C18_MandatoryDimensions ==
    (call.tool = "decompose_research_task" /\ result.success)
        => /\ <<"Potential", " ", "Biases">> \in DimensionLabels
           /\ <<"Knowledge", " ", "Gaps">> \in DimensionLabels

\* C19: initialize at cursor 0 with otherwise valid arguments succeeds if and
\* only if the task description is a string whose trimmed length is between
\* 10 and 1000; a failure is an invalid-parameter error after which no root
\* node exists and the cursor is still 0.
C19_DescriptionLength ==
    (/\ call.op = "initialize"
     /\ result.stage_before = 0
     /\ call.confidence_ok
     /\ call.config_ok)
        => /\ result.success
                <=> /\ call.description.k = "string"
                    /\ call.description.len >= 10
                    /\ call.description.len <= 1000
           /\ result.success => n0 \in DOMAIN vertices /\ currentStage = 1
           /\ ~result.success
                => /\ result.error.kind = "invalid_params"
                   /\ ~result.threw
                   /\ n0 \notin DOMAIN vertices
                   /\ currentStage = 0

\* C19 happens: nine characters between blanks were turned down
C19_Witness ==
    /\ call.op = "initialize"
    /\ call.confidence_ok
    /\ call.config_ok
    /\ call.description.k = "string"
    /\ call.description.len = 9
    /\ call.description.padL + call.description.padR > 0
    /\ result.stage_before = 0
    /\ ~result.success
    /\ result.error.kind = "invalid_params"
    /\ currentStage = 0

\* C19 happens on the other side: exactly ten characters were accepted
C19_TenWitness ==
    /\ call.op = "initialize"
    /\ call.confidence_ok
    /\ call.description.len = 10
    /\ result.success
    /\ currentStage = 1

\* C20: initialize given an initial confidence vector that is not an array
\* of exactly 4 elements, or that has an element that is not a number or lies
\* outside [0,1], fails as a whole: no element is replaced, no root node is
\* created, and the cursor stays 0.
C20_BadConfidenceFailsWhole ==
    (/\ call.op = "initialize"
     /\ result.stage_before = 0
     /\ ~call.confidence_ok)
        => /\ ~result.success
           /\ n0 \notin DOMAIN vertices
           /\ currentStage = 0

\* the fields of the bundle built for a node
NodeMetadataFields ==
    {"node_id", "created", "updated", "timestamp", "provenance", "confidence",
     "epistemic_status", "disciplinary_tags", "falsification_criteria", "bias_flags",
     "revision_history", "layer_id", "topology_metrics", "statistical_power",
     "info_metrics", "impact_score", "attribution"}

\* the fields of the bundle built for an edge
EdgeMetadataFields ==
    {"edge_id", "created", "edge_type", "confidence", "causal_metadata",
     "temporal_metadata", "weight", "bidirectional", "layer_connection"}

\* C21: in every reachable state every node and every edge of the store
\* carries every field of the metadata bundle, whatever the caller supplied.
C21_CompleteMetadata ==
    /\ \A id \in DOMAIN vertices :
            /\ "metadata" \in DOMAIN vertices[id]
            /\ NodeMetadataFields \subseteq DOMAIN vertices[id].metadata
    /\ \A e \in DOMAIN edges :
            /\ "metadata" \in DOMAIN edges[e]
            /\ EdgeMetadataFields \subseteq DOMAIN edges[e].metadata

\* C21 happens: root, dimension and hypothesis nodes and their edges are
\* stored, the hypotheses having come with a content and nothing else
C21_Witness ==
    /\ call.op = "generateHypotheses"
    /\ result.success
    /\ call.items_plain = <<TRUE, TRUE, TRUE>>
    /\ NodesOfType("root") # {}
    /\ NodesOfType("dimension") # {}
    /\ Cardinality(NodesOfType("hypothesis")) = 3
    /\ \A id \in NodesOfType("hypothesis") :
            /\ vertices[id].metadata.falsification_criteria = None
            /\ EdgeId(call.dimension, id) \in DOMAIN edges

\* whether a format argument names json or yaml in some letter case (an
\* absent argument stands for json)
NamesFormat(format) ==
    \/ format.k = "undefined"
    \/ format.k = "string" /\ ToLowerCase(format.s) \in {<<"json">>, <<"yaml">>}

\* C22: an export whose format is not json or yaml in any letter case is
\* rejected as an invalid-parameter failure before the export data (summary,
\* stage trace, topology) is built, and gives no document; json and yaml in
\* any letter case are accepted.
C22_FormatCheckedFirst ==
    call.op = "exportGraph"
        => IF NamesFormat(call.format)
           THEN result.success /\ result.doc # NoDoc
           ELSE /\ ~result.success
                /\ result.error.kind = "invalid_params"
                /\ ~result.graph_data_built
                /\ result.doc = NoDoc

\* C23: the document of exportGraph('json') has vertices_count equal to the
\* number of nodes in the store at the moment of the export, and its node
\* collection has that many entries.
C23_ExportCountsNodes ==
    (call.op = "exportGraph" /\ result.success /\ result.doc.format = <<"json">>)
        => /\ result.doc.vertices_count = Cardinality(DOMAIN vertices)
           /\ Cardinality(DOMAIN result.doc.vertices) = Cardinality(DOMAIN vertices)

\* C23 happens: a graph of a root, seven dimensions and three hypotheses was
\* exported as json
C23_Witness ==
    /\ call.op = "exportGraph"
    /\ call.format = Str(<<"JSON">>)
    /\ result.success
    /\ result.doc.format = <<"json">>
    /\ result.doc.vertices_count = 11
    /\ Cardinality(NodesOfType("hypothesis")) = 3

\* C24: getGraphSummary and exportGraph are pure reads: whether the call
\* succeeds or fails, the nodes, the edges, the layer memberships and the
\* cursor after the call are those before it.
C24_ReadsChangeNothing ==
    [][call'.op \in {"getGraphSummary", "exportGraph"}
       => /\ vertices' = vertices
          /\ edges' = edges
          /\ layers' = layers
          /\ currentStage' = currentStage]_vars

\* C24 happens: an export failed on a graph with dimension nodes, which are
\* still there
C24_Witness ==
    /\ call.op = "exportGraph"
    /\ ~result.success
    /\ currentStage = 2
    /\ NodesOfType("dimension") # {}
    /\ DOMAIN edges # {}

\* C25: a call that uses a tool name of the tool listing is never answered
\* with the unknown-tool error.
C25_AdvertisedToolsAccepted ==
    call.tool \in advertisedTools => result.error.kind # "method_not_found"

\* the answers of the dispatcher, in the current state, to the valid calls
\* that succeed
SuccessfulResponses ==
    LET Succeeds(r) == r.res.success /\ ~r.res.threw
    IN  {ToolInitialize(args[1], args[2], args[3]) :
            args \in {a \in ToolInitializeCalls :
                        Succeeds(ToolInitialize(a[1], a[2], a[3]))}}
        \cup {ToolDecompose(d) : d \in {x \in DimensionInputs : Succeeds(ToolDecompose(x))}}
        \cup {ToolGenerate(args[1], args[2], args[3]) :
                args \in {a \in GenerateCalls :
                            Succeeds(ToolGenerate(a[1], a[2], a[3]))}}
        \cup {r \in {ToolSummary} : Succeeds(r)}
        \cup {ToolExport(f) : f \in {x \in Formats : Succeeds(ToolExport(x))}}

\* C26: after a failed call the service still takes calls and is not stuck:
\* in every reachable state, the states left behind by failed calls included,
\* some valid call is processed and succeeds.
C26_NeverStuck == SuccessfulResponses # {}

\* C26 happens: a call has just failed on a graph that is past its last
\* implemented stage, and a call that succeeds is still there
C26_Witness ==
    /\ call.tool = "decompose_research_task"
    /\ ~result.success
    /\ graphExists
    /\ currentStage = 3
    /\ \E r \in SuccessfulResponses : r.res.op = "initialize" /\ r.g.currentStage = 1

\* C26 happens without a graph as well: the failed call left none
C26_NoGraphWitness ==
    /\ ~result.success
    /\ result.op # "none"
    /\ ~graphExists
    /\ \E r \in SuccessfulResponses : r.res.op = "initialize" /\ r.g.currentStage = 1

ConfidenceEntries == {0, 30, 50, 100, 120}

ConfidenceVectors ==
    {Vec(a, b, c, d) : a \in ConfidenceEntries, b \in ConfidenceEntries,
                       c \in ConfidenceEntries, d \in ConfidenceEntries}

DistributionInit ==
    /\ graphExists = FALSE
    /\ vertices = NoGraph.vertices
    /\ edges = NoGraph.edges
    /\ layers = NoGraph.layers
    /\ nodeTypes = NoGraph.nodeTypes
    /\ currentStage = NoGraph.currentStage
    /\ metadataStage = NoGraph.metadataStage
    /\ call = Vec(50, 50, 50, 50)
    /\ result = _createProbabilityDistribution(call)

CreateProbabilityDistribution ==
    /\ \E means \in ConfidenceVectors :
          /\ call' = means
          /\ result' = _createProbabilityDistribution(means)
    /\ UNCHANGED <<graphExists, vertices, edges, layers, nodeTypes, currentStage,
                   metadataStage>>

SpecDistribution == DistributionInit /\ [][CreateProbabilityDistribution]_vars

\* C28: for every 4-element confidence vector with each entry in [0,1] the
\* distribution has the input as its means and means[i] * (1 - means[i]) as
\* its variances.
C28_VarianceOfMeans ==
    (\A i \in 1..4 : call.items[i].n >= 0 /\ call.items[i].n <= 100)
        => /\ Len(result.means) = 4
           /\ Len(result.variances) = 4
           /\ \A i \in 1..4 :
                 /\ result.means[i] = call.items[i].n
                 /\ result.variances[i] = result.means[i] * (100 - result.means[i])

\* C28 happens: [0, 0.3, 1, 0.5] was wrapped, with variances 0, 0.21, 0, 0.25
C28_Witness ==
    /\ call = Vec(0, 30, 100, 50)
    /\ result.means = <<0, 30, 100, 50>>
    /\ result.variances = <<0, 2100, 0, 2500>>

\* C29: generateHypotheses invoked while the cursor is not 2 returns
\* success=false with an error that names the stage, whatever the other
\* arguments are: the stage check comes before every argument check.
C29_StageCheckFirst ==
    (call.op = "generateHypotheses" /\ result.stage_before # 2)
        => /\ ~result.success
           /\ ~result.threw
           /\ result.error.kind = "wrong_stage"
           /\ result.error.current = result.stage_before
           /\ result.error.expected = 2
           /\ currentStage = result.stage_before
           /\ result.created = <<>>

\* C29 happens: an unknown dimension id at cursor 1 was answered with the
\* stage error
C29_Witness ==
    /\ call.op = "generateHypotheses"
    /\ ~call.dimension_ok
    /\ call.dimension = DimId(9)
    /\ result.stage_before = 1
    /\ result.error.current = 1
    /\ ~result.success

\* C29 happens for a collection of two items as well
C29_ShortWitness ==
    /\ call.op = "generateHypotheses"
    /\ Len(call.items_ok) = 2
    /\ result.stage_before = 3
    /\ result.error.current = 3
    /\ ~result.success

\* whether the store holds nothing: no node, no edge, no layer member
StoreEmpty ==
    /\ DOMAIN vertices = {}
    /\ DOMAIN edges = {}
    /\ \A l \in DOMAIN layers : layers[l].nodes = {} /\ layers[l].edges = {}

\* C30: in every reachable state the cursor is 0 if and only if the store is
\* empty, and n0 is present if and only if the cursor is at least 1; so
\* initialize never finds a non-empty store at cursor 0.
C30_CursorZeroIffEmpty ==
    /\ currentStage = 0 <=> StoreEmpty
    /\ n0 \in DOMAIN vertices <=> currentStage >= 1

\* C30 happens: the cursor is back at 0 after a graph had been built, and the
\* store is empty again
C30_Witness ==
    /\ call.op = "initialize"
    /\ result.stage_before >= 2
    /\ ~result.success
    /\ currentStage = 0
    /\ StoreEmpty

\* the nodes connected to the nodes of S by edges followed in either direction
RECURSIVE Component(_)
Component(S) ==
    LET next == S \cup {edges[e].target : e \in {x \in DOMAIN edges : edges[x].source \in S}}
                  \cup {edges[e].source : e \in {x \in DOMAIN edges : edges[x].target \in S}}
    IN  IF next = S THEN S ELSE Component(next)

\* C31: in every reachable state every edge joins two stored nodes, and
\* whenever the cursor is at least 1 the graph is a tree rooted at n0: one
\* edge less than nodes, and one connected component.
C31_TreeRootedAtRoot ==
    /\ \A e \in DOMAIN edges :
            edges[e].source \in DOMAIN vertices /\ edges[e].target \in DOMAIN vertices
    /\ currentStage >= 1
            => /\ Cardinality(DOMAIN edges) = Cardinality(DOMAIN vertices) - 1
               /\ Component({n0}) = DOMAIN vertices

\* C31 happens: the root, seven dimensions and hypotheses under one of them
C31_Witness ==
    /\ currentStage = 3
    /\ Cardinality(NodesOfType("dimension")) = 7
    /\ Cardinality(NodesOfType("hypothesis")) = 4
    /\ Cardinality(DOMAIN edges) = 11
    /\ Component({n0}) = DOMAIN vertices

\* the layers whose node set holds the node
LayersOf(nodeId) == {l \in DOMAIN layers : nodeId \in layers[l].nodes}

\* the sum of the layers' node counts, one layer after another
RECURSIVE LayerNodeCount(_)
LayerNodeCount(names) ==
    IF names = {} THEN 0
    ELSE LET l == CHOOSE x \in names : TRUE
         IN  Cardinality(layers[l].nodes) + LayerNodeCount(names \ {l})

\* C32: in every reachable state each stored node is a member of exactly one
\* layer, the one its metadata names (base for the root and the dimensions,
\* theoretical for the hypotheses), and the layers' node counts add up to the
\* number of nodes.
C32_EachNodeInItsLayer ==
    /\ \A id \in DOMAIN vertices :
            /\ LayersOf(id) = {vertices[id].metadata.layer_id}
            /\ vertices[id].metadata.layer_id =
                    (IF vertices[id].type = "hypothesis" THEN "theoretical" ELSE "base")
    /\ LayerNodeCount(DOMAIN layers) = Cardinality(DOMAIN vertices)

\* C32 happens: hypotheses filed under theoretical beside the base members
C32_Witness ==
    /\ NodesOfType("hypothesis") # {}
    /\ layers["theoretical"].nodes = NodesOfType("hypothesis")
    /\ layers["base"].nodes = NodesOfType("root") \cup NodesOfType("dimension")
    /\ Cardinality(layers["base"].nodes) = 8

\* the dimension nodes that have hypothesis children
DimensionsWithHypotheses ==
    {d \in NodesOfType("dimension") : HypothesisChildren(d) # {}}

\* C33: generateHypotheses succeeds at most once on a graph: its success
\* moves the cursor from 2 to 3, hypothesis nodes exist only at cursor 3, and
\* in every reachable state at most one dimension node has hypothesis
\* children and the graph holds at most 5 hypothesis nodes.
C33_HypothesesGeneratedOnce ==
    /\ (result.op = "generateHypotheses" /\ result.success)
            => result.stage_before = 2 /\ currentStage = 3
    /\ NodesOfType("hypothesis") # {} => currentStage = 3
    /\ Cardinality(DimensionsWithHypotheses) <= 1
    /\ Cardinality(NodesOfType("hypothesis")) <= MaxHypotheses
    /\ \A h \in NodesOfType("hypothesis") :
            \E d \in DimensionsWithHypotheses : h \in HypothesisChildren(d)

\* C33 happens: five hypotheses under one of seven dimensions, and a further
\* generateHypotheses call turned away
C33_Witness ==
    /\ Cardinality(NodesOfType("dimension")) = 7
    /\ Cardinality(DimensionsWithHypotheses) = 1
    /\ Cardinality(NodesOfType("hypothesis")) = MaxHypotheses
    /\ result.op = "generateHypotheses"
    /\ ~result.success
    /\ result.stage_before = 3

\* C34: every successful decompose leaves at least one dimension node, so
\* that in every state with cursor 2 there is a dimension node for a
\* generateHypotheses call to succeed on.
C34_DecomposeLeavesDimension ==
    /\ (result.op = "decompose" /\ result.success) => NodesOfType("dimension") # {}
    /\ currentStage = DecomposedStage => NodesOfType("dimension") # {}

\* C35: a valid initialize call under the tool name the dispatcher handles,
\* in whatever state it arrives, replaces the current graph with a fresh one:
\* afterwards the graph holds exactly n0, filed under the base layer, no
\* edge, and the cursor is 1; no node, edge or layer member of the graph
\* before is left.
C35_InitializeReplacesGraph ==
    (/\ call.tool = "initialize_asr_got_graph"
     /\ call.op = "initialize"
     /\ call.description.k = "string"
     /\ call.description.len >= MinDescriptionLength
     /\ call.description.len <= MaxDescriptionLength
     /\ call.confidence_ok
     /\ call.config_ok)
        => /\ result.success
           /\ graphExists
           /\ DOMAIN vertices = {n0}
           /\ vertices[n0].type = "root"
           /\ nodeTypes = {"root"}
           /\ DOMAIN edges = {}
           /\ currentStage = InitializedStage
           /\ \A l \in DOMAIN layers :
                /\ layers[l].nodes = (IF l = "base" THEN {n0} ELSE {})
                /\ layers[l].edges = {}

\* C35 happens: the call found a graph at cursor 3 and left only n0
C35_Witness ==
    /\ call.tool = "initialize_asr_got_graph"
    /\ call.op = "initialize"
    /\ call.stage_replaced = 3
    /\ result.success
    /\ DOMAIN vertices = {n0}
    /\ DOMAIN edges = {}
    /\ currentStage = 1

C37_TraceFollowsCursor ==
    (result.op = "exportGraph" /\ result.success)
        => LET trace == result.doc.reasoning_trace
           IN  /\ trace.current_stage = currentStage
               /\ DOMAIN trace.stage_progression = 1..8
               /\ \A k \in 1..8 :
                    /\ trace.stage_progression[k] \in {"completed", "pending"}
                    /\ trace.stage_progression[k] = "completed" <=> k <= currentStage
               /\ Len(trace.completed_stages) = currentStage
               /\ \A i \in 1..currentStage : trace.completed_stages[i] = stageNames[i]

\* C37 happens: an export at cursor 2 lists initialization and decomposition
\* and marks stages 3 to 8 pending
C37_Witness ==
    /\ result.op = "exportGraph"
    /\ result.success
    /\ currentStage = 2
    /\ result.doc.reasoning_trace.completed_stages = <<"initialization", "decomposition">>
    /\ result.doc.reasoning_trace.stage_progression[2] = "completed"
    /\ \A k \in 3..8 : result.doc.reasoning_trace.stage_progression[k] = "pending"

\* C38: a hypothesis item that supplies an impact_score s between 0 and 1 is
\* stored with metadata impact score exactly s, s = 0 included; an item that
\* supplies none is stored with the default 0.6.
C38_ImpactScoreKept ==
    (call.op = "generateHypotheses" /\ result.success)
        => \A i \in 1..Len(call.items_impact) :
             LET id == HypothesisNodeId(call.dimension[2], i)
                 supplied == call.items_impact[i]
             IN  id \in DOMAIN vertices
                    => /\ (supplied.k = "number" /\ supplied.n \in 0..100)
                            => vertices[id].metadata.impact_score = supplied.n
                       /\ supplied.k = "undefined"
                            => vertices[id].metadata.impact_score = 60

====
